---- MODULE Spec2Model ----
(***************************************************************************)
(* Model of the Sales Proposal Automation System (src/main.py).            *)
(*                                                                         *)
(* Thirteen specifications share this module:                              *)
(*   SpecRender  - the Mermaid -> PNG fallback chain and its call sites    *)
(*   SpecCompose - merge_docx_files_with_page_breaks                       *)
(*   SpecImage   - the crop-and-flatten image normalisation                *)
(*   Spec        - the step-4 flowchart page: synthesis, the diagrams.net  *)
(*                 editor bridge, refresh and the final-merge capture      *)
(*   SpecSynth   - diagram synthesis over all short completions            *)
(*   SpecTimed   - the editor bridge with the clock running                *)
(*   SpecSession - the editor bridge over a diagram already written        *)
(*   SpecProse   - the concurrent two-variant prose generators             *)
(*   SpecWizard  - the five wizard steps up to the final proposal          *)
(*   SpecRequest - the generation requests of the step-2 and step-3 pages  *)
(*   SpecPoll    - the download hand-off of _DrawIO.export_xml             *)
(*   SpecBold    - the inline bold markup of save_to_docx                  *)
(*   SpecClass   - _infer_class                                            *)
(***************************************************************************)
EXTENDS Integers, Sequences, FiniteSets, TLC

VARIABLES
    \* ---- render chain (SpecRender) ----
    r_code,        \* the Mermaid text handed to the renderer
    r_env,         \* what the outside world answers to each strategy
    r_out,         \* result of the last render call site
    \* ---- composer (SpecCompose) ----
    buffers_list,  \* argument of merge_docx_files_with_page_breaks
    merged,        \* its result (document or error)
    \* ---- image normalisation (SpecImage) ----
    im_fn,         \* which normaliser is applied
    im_in,         \* decoded input image
    im_once,       \* normalize(im_in)
    im_twice,      \* normalize(normalize(im_in))
    im_pc,         \* how many times the normaliser has run
    \* ---- step-4 flowchart page (Spec) ----
    step,                       \* st.session_state.step
    mermaid_code,               \* st.session_state["mermaid_code"]
    selected_summary_buffer,    \* an executive summary has been selected
    flow_state,                 \* st.session_state.flow_state (_FlowAppState)
    browsers,                   \* every Chrome the bridge has launched
    now,                        \* time.time(), in seconds
    flowchart_final_png_bytes,  \* st.session_state["flowchart_final_png_bytes"]
    mermaid_png_bytes,          \* st.session_state["mermaid_png_bytes"]
    flowchart_docx_buffer,      \* st.session_state.flowchart_docx_buffer
    req_ts,                     \* history: time of the latest refresh request
    last,                       \* history: what the latest handler did
    \* ---- concurrent prose generation (SpecProse) ----
    g_kind,        \* which generator runs: cover letters or executive summaries
    g_pc,          \* position of the calling thread
    g_call,        \* the two submitted calls: pending, returned or raised
    g_done,        \* the order in which the futures completed
    g_seen,        \* how many futures the as_completed loop has handled
    g_outputs,     \* the local list outputs
    g_ret,         \* the pair handed back to the caller
    \* ---- wizard steps 1-3 and the final merge (SpecWizard) ----
    cover_letters,          \* "cover_letters" in st.session_state
    selected_cover_buffer,  \* a cover letter has been selected
    summaries,              \* "summaries" in st.session_state
    manual_rfq_buffer,      \* the RFQ response page has been built
    final_docx_bytes,       \* st.session_state["final_docx_bytes"]
    finals,                 \* history: final merges since the wizard (re)started
    client_name,            \* st.session_state.client_name
    project_title,          \* st.session_state.project_title
    rfq_upl,                \* the RFQ uploader of the step-1 page holds a file
    headers,                \* the names in the page header of each stored fragment
    lost,                   \* history: sessions for which a liveness probe has failed
    \* ---- the download hand-off of _DrawIO.export_xml (SpecPoll) ----
    d_pc,          \* position of export_xml in its download hand-off
    d_files,       \* the watched directory, oldest modification first
    d_before,      \* the local variable before
    d_ret,         \* the path export_xml returned
    d_polls,       \* iterations of the polling loop so far
    \* ---- pure text functions (SpecBold, SpecClass) ----
    p_in,          \* the argument
    p_out          \* the value computed from it

renderVars  == <<r_code, r_env, r_out>>
composeVars == <<buffers_list, merged>>
imageVars   == <<im_fn, im_in, im_once, im_twice, im_pc>>
flowVars    == <<step, mermaid_code, selected_summary_buffer, flow_state, browsers, now,
                 flowchart_final_png_bytes, mermaid_png_bytes, flowchart_docx_buffer,
                 req_ts, last>>
proseVars   == <<g_kind, g_pc, g_call, g_done, g_seen, g_outputs, g_ret>>
wizVars     == <<cover_letters, selected_cover_buffer, summaries, manual_rfq_buffer,
                 final_docx_bytes, finals>>
histVars    == <<lost>>
brandVars   == <<client_name, project_title, rfq_upl, headers>>
pollVars    == <<d_pc, d_files, d_before, d_ret, d_polls>>
pureVars    == <<p_in, p_out>>
auxVars     == <<proseVars, wizVars, histVars, brandVars, pollVars, pureVars>>
vars == <<renderVars, composeVars, imageVars, flowVars, auxVars>>

\* Python None; every str / bytes value of the model is a sequence of tokens
None == <<"None">>

(***************************************************************************)
(* Mermaid text.  A text is a sequence of tokens; "ws" is a run of         *)
(* whitespace, so str.strip() and truthiness can be computed.              *)
(***************************************************************************)
RECURSIVE LStrip(_)
LStrip(s) == IF s # <<>> /\ Head(s) = "ws" THEN LStrip(Tail(s)) ELSE s

RECURSIVE RStrip(_)
RStrip(s) == IF s # <<>> /\ s[Len(s)] = "ws" THEN RStrip(SubSeq(s, 1, Len(s) - 1)) ELSE s

\* str.strip()
Strip(s) == RStrip(LStrip(s))

\* truthiness of a str / bytes value
Truthy(s) == s # <<>> /\ s # None

(***************************************************************************)
(* Render chain: src/main.py 1343-1452                                     *)
(***************************************************************************)
HttpStrategies == {"kroki_png", "kroki_svg", "ink_png", "ink_svg"}
StrategyOrder  == <<"kroki_png", "kroki_svg", "ink_png", "ink_svg", "chrome">>

\* what one HTTP exchange can do: requests raises (timeout / connection),
\* answers a non-2xx status, answers 2xx with an empty body, answers 2xx
\* with a usable body, or answers 2xx with a body that is not a usable image
HttpAnswers == {"timeout", "non200", "empty", "body_ok", "body_corrupt"}
ChromeAnswers == {"ok", "raise"}

Envs == [has_requests : BOOLEAN, has_cairosvg : BOOLEAN, has_selenium : BOOLEAN,
         http : [HttpStrategies -> HttpAnswers], chrome : ChromeAnswers]

\* result of a render function: the returned value, the strategies that were
\* invoked (in order) and whether an exception escaped to the caller
Ret(png, trace) == [png |-> png, trace |-> trace, raised |-> FALSE]
Raise(trace)    == [png |-> None, trace |-> trace, raised |-> TRUE]

\* requests.post / requests.get for strategy s: a response or an exception
HttpCall(s, env) ==
    CASE env.http[s] = "timeout"      -> [exc |-> TRUE,  ok |-> FALSE, content |-> <<>>]
      [] env.http[s] = "non200"       -> [exc |-> FALSE, ok |-> FALSE, content |-> <<"errpage">>]
      [] env.http[s] = "empty"        -> [exc |-> FALSE, ok |-> TRUE,  content |-> <<>>]
      [] env.http[s] = "body_ok"      -> [exc |-> FALSE, ok |-> TRUE,  content |-> <<s, "ok">>]
      [] env.http[s] = "body_corrupt" -> [exc |-> FALSE, ok |-> TRUE,  content |-> <<s, "corrupt">>]

\* _svg_bytes_to_png: None without cairosvg, None when svg2png raises
svg_bytes_to_png(svg_bytes, env) ==
    IF ~Truthy(svg_bytes) THEN None
    ELSE IF env.has_cairosvg /\ svg_bytes[2] = "ok" THEN <<svg_bytes[1], "ok">>
    ELSE None

\* one "try: r = requests...; if r.ok and r.content: return r.content
\* except Exception: pass" block
PngBlock(s, env) ==
    LET r == HttpCall(s, env) IN
    IF r.exc THEN Ret(None, <<s>>)
    ELSE IF r.ok /\ Truthy(r.content) THEN Ret(r.content, <<s>>)
    ELSE Ret(None, <<s>>)

\* the same block for the SVG variants, rasterised locally
SvgBlock(s, env) ==
    LET r == HttpCall(s, env) IN
    IF r.exc THEN Ret(None, <<s>>)
    ELSE IF r.ok /\ Truthy(r.content)
         THEN LET png == svg_bytes_to_png(r.content, env) IN
              IF Truthy(png) THEN Ret(png, <<s>>) ELSE Ret(None, <<s>>)
         ELSE Ret(None, <<s>>)

\* sequential composition: nxt runs only when r fell through without a value
OrElse(r, nxt) ==
    IF r.raised \/ Truthy(r.png) THEN r
    ELSE [nxt EXCEPT !.trace = r.trace \o nxt.trace]

\* mutant of mermaid_to_png_via_kroki: every strategy is tried and the last
\* successful answer wins (no early return)
via_kroki_no_short_circuit(code, env) ==
    IF ~env.has_requests \/ ~Truthy(code) THEN Ret(None, <<>>)
    ELSE LET b1 == PngBlock("kroki_png", env)
             b2 == SvgBlock("kroki_svg", env)
             b3 == PngBlock("ink_png", env)
             b4 == SvgBlock("ink_svg", env)
             best == IF Truthy(b4.png) THEN b4.png ELSE IF Truthy(b3.png) THEN b3.png
                     ELSE IF Truthy(b2.png) THEN b2.png ELSE b1.png
         IN Ret(best, b1.trace \o b2.trace \o b3.trace \o b4.trace)

\* mutant of mermaid_to_png_via_kroki: the first request is not inside a try
via_kroki_unprotected(code, env) ==
    IF ~env.has_requests \/ ~Truthy(code) THEN Ret(None, <<>>)
    ELSE IF HttpCall("kroki_png", env).exc THEN Raise(<<"kroki_png">>)
    ELSE OrElse(PngBlock("kroki_png", env),
         OrElse(SvgBlock("kroki_svg", env),
         OrElse(PngBlock("ink_png", env),
                SvgBlock("ink_svg", env))))

\* mermaid_to_png_via_kroki
mermaid_to_png_via_kroki(code, env) ==
    IF ~env.has_requests \/ ~Truthy(code) THEN Ret(None, <<>>)
    ELSE OrElse(PngBlock("kroki_png", env),
         OrElse(SvgBlock("kroki_svg", env),
         OrElse(PngBlock("ink_png", env),
                SvgBlock("ink_svg", env))))

\* mermaid_to_png_via_chrome: headless screenshot, any exception -> None
mermaid_to_png_via_chrome(code, env) ==
    IF ~(env.has_selenium /\ Truthy(code)) THEN Ret(None, <<>>)
    ELSE IF env.chrome = "ok" THEN Ret(<<"chrome", "ok">>, <<"chrome">>)
    ELSE Ret(None, <<"chrome">>)

\* mermaid_to_png_best_effort
mermaid_to_png_best_effort(code, env) ==
    LET png == mermaid_to_png_via_kroki(code, env) IN
    IF png.raised \/ Truthy(png.png) THEN png
    ELSE OrElse(png, mermaid_to_png_via_chrome(code, env))

\* _require_valid_png, lines 2054-2061, on a byte string of the chain: it
\* raises ValueError for None / empty bytes and for bytes PIL cannot decode
PngDecodes(png) == Truthy(png) /\ png[2] = "ok"

\* step4_content, merge_final_btn, lines 3031-3044: render the current
\* Mermaid code, Kroki chain first, headless Chrome second
MergeRender(code, env) ==
    IF Truthy(Strip(code))
    THEN LET png == mermaid_to_png_via_kroki(code, env) IN
         IF png.raised \/ Truthy(png.png) THEN png
         ELSE OrElse(png, mermaid_to_png_via_chrome(code, env))
    ELSE Ret(None, <<>>)

\* ensure_flowchart_docx_in_session with no editor open, lines 1531-1547:
\* Kroki chain only, then make_docx_fit_one_page_from_png_or_code, whose
\* _require_valid_png raises on a missing or undecodable image
EnsureFlowchartRender(code, env) ==
    LET png == IF Truthy(Strip(code)) THEN mermaid_to_png_via_kroki(code, env)
               ELSE Ret(None, <<>>)
    IN IF png.raised \/ ~PngDecodes(png.png) THEN Raise(png.trace) ELSE png

\* _export_latest_flowchart_png, plain Mermaid route, lines 2383-2388
ExportLatestPlain(code, env) ==
    IF Truthy(Strip(code)) THEN mermaid_to_png_via_kroki(code, env)
    ELSE Ret(None, <<>>)

(***************************************************************************)
(* Document Composer: src/main.py 378-381, 803-820.  A document is the     *)
(* sequence of its body parts: fragment bodies and page-break paragraphs.  *)
(***************************************************************************)
NoneBuf   == "null"          \* a None entry of buffers_list
PageBreak == "PAGE_BREAK"    \* the paragraph _add_page_break appends
Frags     == {"cover", "letter", "summary"}
MaxFrags  == 4

NotMerged == [err |-> "idle", doc |-> <<>>]

\* _add_page_break(doc)
add_page_break(doc) == doc \o <<PageBreak>>

\* mutant of MergeLoop: the page break is added before the None test
RECURSIVE MergeLoopBreakForNone(_, _)
MergeLoopBreakForNone(doc, rest) ==
    IF rest = <<>> THEN doc
    ELSE IF Head(rest) = NoneBuf THEN MergeLoopBreakForNone(add_page_break(doc), Tail(rest))
    ELSE MergeLoopBreakForNone(add_page_break(doc) \o <<Head(rest)>>, Tail(rest))

\* mutant of MergeLoop: the page break follows the appended fragment
RECURSIVE MergeLoopBreakAfter(_, _)
MergeLoopBreakAfter(doc, rest) ==
    IF rest = <<>> THEN doc
    ELSE IF Head(rest) = NoneBuf THEN MergeLoopBreakAfter(doc, Tail(rest))
    ELSE MergeLoopBreakAfter(add_page_break(doc \o <<Head(rest)>>), Tail(rest))

\* the "for buf in buffers_list[1:]" loop, lines 810-815
RECURSIVE MergeLoop(_, _)
MergeLoop(doc, rest) ==
    IF rest = <<>> THEN doc
    ELSE IF Head(rest) = NoneBuf THEN MergeLoop(doc, Tail(rest))
    ELSE MergeLoop(add_page_break(doc) \o <<Head(rest)>>, Tail(rest))

\* merge_docx_files_with_page_breaks(buffers_list)
merge_docx_files_with_page_breaks(bl) ==
    IF bl = <<>> \/ bl[1] = NoneBuf
    THEN [err |-> "ValueError", doc |-> <<>>]
    ELSE [err |-> "ok", doc |-> MergeLoop(<<bl[1]>>, Tail(bl))]

(***************************************************************************)
(* Image normalisation: src/main.py 2052-2089, 2232-2270.  A decoded image *)
(* is a grid of cells; every cell stands for a CellPx x CellPx block of    *)
(* equal pixels.                                                           *)
(***************************************************************************)
MaxImgW == 3
MaxImgH == 2
CellPx  == 25
MinSidePx == 50

\* RGB pixels: near-white (gray > 245) or dark
RgbPixels  == {"W", "D"}
\* RGBA pixels: transparent over white / dark colour, opaque white, opaque
\* dark, and a dark pixel of alpha 1 (it flattens to gray 254)
RgbaPixels == {"Tw", "Td", "Ow", "Od", "Fd"}

NoImage == [mode |-> "none", w |-> 0, h |-> 0, px |-> <<>>]

Images ==
    UNION { UNION { [mode : {"RGB"},  w : {w}, h : {h}, px : [(1..w) \X (1..h) -> RgbPixels]]
                    \cup
                    [mode : {"RGBA"}, w : {w}, h : {h}, px : [(1..w) \X (1..h) -> RgbaPixels]]
                  : h \in 1..MaxImgH }
          : w \in 1..MaxImgW }

\* im.getchannel("A") is non-zero at this pixel
AlphaNonZero(p) == p \in {"Ow", "Od", "Fd"}

\* ImageOps.grayscale(im.convert("RGB")) > 245: convert drops the alpha
\* channel and keeps the colour underneath
NearWhite(p) == p \in {"W", "Tw", "Ow"}

\* bg.paste(im, mask=alpha): the pixel composited onto white
Flatten(p) ==
    CASE p \in {"Tw", "Td", "Ow", "Fd"} -> "W"
      [] p = "Od" -> "D"
      [] OTHER -> p

NoBox == <<0, 0, 0, 0>>

\* Image.getbbox() of the cells whose pixel is in Marked (the non-zero cells
\* of the channel): <<left, top, right, bottom>> (inclusive), NoBox when
\* there is none
GetBBox(im, Marked) ==
    LET xs == {x \in 1..im.w : \E y \in 1..im.h : im.px[<<x, y>>] \in Marked}
        ys == {y \in 1..im.h : \E x \in 1..im.w : im.px[<<x, y>>] \in Marked}
        Min(S) == CHOOSE m \in S : \A n \in S : m <= n
        Max(S) == CHOOSE m \in S : \A n \in S : m >= n
    IN IF xs = {} THEN NoBox ELSE <<Min(xs), Min(ys), Max(xs), Max(ys)>>

\* im.crop(bbox)
Crop(im, b) ==
    [mode |-> im.mode, w |-> b[3] - b[1] + 1, h |-> b[4] - b[2] + 1,
     px |-> [c \in (1..(b[3] - b[1] + 1)) \X (1..(b[4] - b[2] + 1)) |->
                im.px[<<c[1] + b[1] - 1, c[2] + b[2] - 1>>]]]

\* flatten alpha onto white: RGBA -> RGB
FlattenImage(im) ==
    IF im.mode = "RGBA"
    THEN [mode |-> "RGB", w |-> im.w, h |-> im.h,
          px |-> [c \in DOMAIN im.px |-> Flatten(im.px[c])]]
    ELSE im

\* the bounding box both normalisers compute (2066-2072, 2243-2253): the
\* alpha box of an RGBA image, else the box of the not-near-white pixels
CropBox(im) ==
    LET Pixels == RgbPixels \cup RgbaPixels
        abox == IF im.mode = "RGBA"
                THEN GetBBox(im, {p \in Pixels : AlphaNonZero(p)}) ELSE NoBox
    IN IF abox = NoBox THEN GetBBox(im, {p \in Pixels : ~NearWhite(p)}) ELSE abox

\* _auto_crop_png_whitespace on a decodable RGB / RGBA image
auto_crop_png_whitespace(im) ==
    LET bbox == CropBox(im)
        cropped == IF bbox # NoBox THEN Crop(im, bbox) ELSE im
    IN [err |-> "ok", im |-> FlattenImage(cropped)]

\* _require_valid_png on a decodable image of at least 100 bytes
require_valid_png(im) ==
    LET bbox == CropBox(im)
        cropped == IF bbox # NoBox THEN Crop(im, bbox) ELSE im
    IN IF cropped.w * CellPx < MinSidePx \/ cropped.h * CellPx < MinSidePx
       THEN [err |-> "ValueError", im |-> NoImage]
       ELSE [err |-> "ok", im |-> FlattenImage(cropped)]

Normalise(fn, im) ==
    IF fn = "require_valid_png" THEN require_valid_png(im) ELSE auto_crop_png_whitespace(im)

(***************************************************************************)
(* Diagram synthesis: src/main.py 1263-1279, 1475-1488, 2860-2884.         *)
(* Tokens of a Mermaid text: "ws" whitespace, "fence" a ``` code fence,    *)
(* "junk" prose, "flowTD" / "flowLR" the header "flowchart TD" /           *)
(* "flowchart LR", and diagram bodies (node, edge and class lines).        *)
(***************************************************************************)
BodyTokens == {"good", "dangling", "noclass"}
Tokens == {"ws", "fence", "junk", "flowTD", "flowLR"} \cup BodyTokens
MaxRespLen == 3

\* the node, edge and class lines a body token stands for, as
\* _parse_mermaid_nodes_edges reads them
BodyOf(t) ==
    CASE t = "good"     -> [nodes |-> {"A", "B"}, edges |-> {<<"A", "B">>},
                            classes |-> {<<"A", "main">>, <<"B", "accept">>}]
      [] t = "dangling" -> [nodes |-> {"A"}, edges |-> {<<"A", "C">>},
                            classes |-> {<<"A", "main">>}]
      [] t = "noclass"  -> [nodes |-> {"A", "B"}, edges |-> {<<"A", "B">>},
                            classes |-> {<<"A", "main">>}]
      [] OTHER          -> [nodes |-> {}, edges |-> {}, classes |-> {}]

\* _parse_mermaid_nodes_edges(code): declared nodes, edges, class statements
parse_mermaid_nodes_edges(code) ==
    [nodes   |-> UNION {BodyOf(code[i]).nodes : i \in 1..Len(code)},
     edges   |-> UNION {BodyOf(code[i]).edges : i \in 1..Len(code)},
     classes |-> UNION {BodyOf(code[i]).classes : i \in 1..Len(code)}]

\* out.lower().startswith("flowchart")
StartsWithFlowchart(out) == out # <<>> /\ Head(out) \in {"flowTD", "flowLR"}

\* ask_llm_mermaid, lines 1272-1279, applied to the completion text
ask_llm_mermaid(content) ==
    LET out0 == Strip(content)
        out1 == IF out0 # <<>> /\ Head(out0) = "fence" THEN LStrip(Tail(out0)) ELSE out0
        out2 == IF out1 # <<>> /\ out1[Len(out1)] = "fence"
                THEN RStrip(SubSeq(out1, 1, Len(out1) - 1)) ELSE out1
        hits == {i \in 1..(Len(out2) - 1) : out2[i] = "flowTD"}
        first == CHOOSE i \in hits : \A j \in hits : i <= j
    IN IF ~StartsWithFlowchart(out2) /\ hits # {}
       THEN Strip(SubSeq(out2, first, Len(out2)))
       ELSE out2

\* completions of the generative-text service
Responses == UNION {[1..n -> Tokens] : n \in 0..MaxRespLen}

\* the button handler's inputs: the uploaded PDF and what the service does
PdfStates == {"missing", "unreadable", "text"}
LlmAnswers == [raises : {TRUE}, content : {<<>>}] \cup [raises : {FALSE}, content : Responses]

\* "Generate flowchart from solution PDF", lines 2861-2884: the value
\* stored (or the old one), the number of synthesis calls, the message
GenFlowOutcome(old, pdf, ans) ==
    IF pdf = "missing" THEN [code |-> old, llm_calls |-> 0, msg |-> "upload_pdf"]
    ELSE LET txt   == IF pdf = "text" THEN <<"junk">> ELSE <<>>
             calls == IF Truthy(txt) THEN 1 ELSE 0
             code  == IF Truthy(txt) /\ ~ans.raises THEN ask_llm_mermaid(ans.content) ELSE <<>>
         IN IF ~Truthy(code) \/ ~StartsWithFlowchart(code)
            THEN [code |-> old, llm_calls |-> calls, msg |-> "invalid_mermaid"]
            ELSE [code |-> Strip(code), llm_calls |-> calls, msg |-> "generated"]

(***************************************************************************)
(* Editor bridge: src/main.py 1682-1692, 1771-1984, 2134-2230, 2345-2388   *)
(***************************************************************************)
MaxDrivers == 2
MaxTime    == 4
Cooldown   == 3

\* a browser: not launched yet, showing diagrams.net, navigated elsewhere,
\* window closed (dead session), quit by the program, or stray: launched by
\* an open_and_insert that raised before it could return the handle
BrowserStates == {"unborn", "live", "away", "closed", "quit", "stray"}

\* _FlowAppState(): driver None (0), mode None, no viewer link, no timestamp
NewFlowAppState == [driver |-> 0, mode |-> "None", viewer_url |-> 0, last_refresh_ts |-> 0]

\* the bridge holds an editor session (fs.mode == "drawio" and fs.driver)
BridgeActive(fs) == fs.mode = "drawio" /\ fs.driver # 0

\* the session behind handle d no longer answers (window closed or quit)
Dead(b, d) == d # 0 /\ b[d] \in {"closed", "quit"}

\* what _DrawIO.export_xml can do against a browser in state bs:
\*   file        a path to a usable XML file is returned
\*   file_small  the file holds fewer than 50 characters
\*   file_gone   the returned path no longer exists
\*   timeout     RuntimeError("XML export timeout")
\*   ui_fail     a menu control is not found (selenium TimeoutException)
\*   no_window   NoSuchWindow / InvalidSessionId
ExportAnswers(bs) ==
    CASE bs = "live" -> {"file", "file_small", "file_gone", "timeout", "ui_fail", "no_window"}
      [] bs = "away" -> {"timeout", "ui_fail", "no_window"}
      [] OTHER       -> {"no_window"}

\* the browser after an export attempt: it is closed when the attempt found
\* no window
AfterExport(bs, ans) == IF ans = "no_window" /\ bs \in {"live", "away"} THEN "closed" ELSE bs

ExportFailed(ans) == ans \in {"timeout", "ui_fail", "no_window"}

NoAct == [act |-> "none", ok |-> FALSE, msg |-> "none", calls |-> <<>>,
          was_active |-> FALSE, was_dead |-> FALSE, gap |-> -1, llm_calls |-> 0]

Act(a, ok, msg, calls) ==
    [act |-> a, ok |-> ok, msg |-> msg, calls |-> calls,
     was_active |-> BridgeActive(flow_state),
     was_dead |-> Dead(browsers, flow_state.driver),
     gap |-> -1, llm_calls |-> 0]

\* mutant of auto_refresh_drawio_preview: when both attempts have failed
\* the session is dropped
auto_refresh_drops_session(fs, b, t, a1, a2) ==
    IF ~BridgeActive(fs)
    THEN [fs |-> fs, bs |-> "none", ok |-> FALSE, msg |-> "not_active", calls |-> <<>>]
    ELSE LET bs0 == b[fs.driver] IN
    IF bs0 \in {"closed", "quit"}
    THEN [fs |-> [fs EXCEPT !.driver = 0, !.mode = "None"], bs |-> bs0, ok |-> FALSE,
          msg |-> "session_lost", calls |-> <<"current_url">>]
    ELSE IF bs0 = "away"
    THEN [fs |-> fs, bs |-> bs0, ok |-> FALSE, msg |-> "navigated_away",
          calls |-> <<"current_url", "current_url">>]
    ELSE LET bs1    == AfterExport(bs0, a1)
             second == ExportFailed(a1)
             fin    == IF ~second THEN a1
                       ELSE IF a2 \in ExportAnswers(bs1) THEN a2 ELSE "no_window"
             bs2    == IF second THEN AfterExport(bs1, fin) ELSE bs1
             calls  == <<"current_url", "current_url", "export_xml">>
                       \o (IF second THEN <<"export_xml">> ELSE <<>>)
         IN CASE ExportFailed(fin) ->
                    [fs |-> [fs EXCEPT !.driver = 0, !.mode = "None"], bs |-> bs2,
                     ok |-> FALSE, msg |-> "export_timeout", calls |-> calls]
              [] fin = "file_gone" ->
                    [fs |-> fs, bs |-> bs2, ok |-> FALSE, msg |-> "file_not_found", calls |-> calls]
              [] fin = "file_small" ->
                    [fs |-> fs, bs |-> bs2, ok |-> FALSE, msg |-> "invalid_data", calls |-> calls]
              [] fin = "file" ->
                    [fs |-> [fs EXCEPT !.viewer_url = t, !.last_refresh_ts = t],
                     bs |-> bs2, ok |-> TRUE, msg |-> "refreshed", calls |-> calls]

\* mutant of auto_refresh_drawio_preview: a failed export still stamps the
\* time of the refresh
auto_refresh_stamps_failure(fs, b, t, a1, a2) ==
    IF ~BridgeActive(fs)
    THEN [fs |-> fs, bs |-> "none", ok |-> FALSE, msg |-> "not_active", calls |-> <<>>]
    ELSE LET bs0 == b[fs.driver] IN
    IF bs0 \in {"closed", "quit"}
    THEN [fs |-> [fs EXCEPT !.driver = 0, !.mode = "None"], bs |-> bs0, ok |-> FALSE,
          msg |-> "session_lost", calls |-> <<"current_url">>]
    ELSE IF bs0 = "away"
    THEN [fs |-> fs, bs |-> bs0, ok |-> FALSE, msg |-> "navigated_away",
          calls |-> <<"current_url", "current_url">>]
    ELSE LET bs1    == AfterExport(bs0, a1)
             second == ExportFailed(a1)
             fin    == IF ~second THEN a1
                       ELSE IF a2 \in ExportAnswers(bs1) THEN a2 ELSE "no_window"
             bs2    == IF second THEN AfterExport(bs1, fin) ELSE bs1
             calls  == <<"current_url", "current_url", "export_xml">>
                       \o (IF second THEN <<"export_xml">> ELSE <<>>)
         IN CASE ExportFailed(fin) ->
                    [fs |-> [fs EXCEPT !.last_refresh_ts = t], bs |-> bs2, ok |-> FALSE,
                     msg |-> "export_timeout", calls |-> calls]
              [] fin = "file_gone" ->
                    [fs |-> fs, bs |-> bs2, ok |-> FALSE, msg |-> "file_not_found", calls |-> calls]
              [] fin = "file_small" ->
                    [fs |-> fs, bs |-> bs2, ok |-> FALSE, msg |-> "invalid_data", calls |-> calls]
              [] fin = "file" ->
                    [fs |-> [fs EXCEPT !.viewer_url = t, !.last_refresh_ts = t],
                     bs |-> bs2, ok |-> TRUE, msg |-> "refreshed", calls |-> calls]

\* _auto_refresh_drawio_preview(): fs the flow state, b the browsers, t the
\* time, a1 / a2 what the first / second export attempt does
auto_refresh_drawio_preview(fs, b, t, a1, a2) ==
    IF ~BridgeActive(fs)
    THEN [fs |-> fs, bs |-> "none", ok |-> FALSE, msg |-> "not_active", calls |-> <<>>]
    ELSE LET bs0 == b[fs.driver] IN
    IF bs0 \in {"closed", "quit"}
    THEN [fs |-> [fs EXCEPT !.driver = 0, !.mode = "None"], bs |-> bs0, ok |-> FALSE,
          msg |-> "session_lost", calls |-> <<"current_url">>]
    ELSE IF bs0 = "away"
    THEN [fs |-> fs, bs |-> bs0, ok |-> FALSE, msg |-> "navigated_away",
          calls |-> <<"current_url", "current_url">>]
    ELSE LET bs1    == AfterExport(bs0, a1)
             second == ExportFailed(a1)
             fin    == IF ~second THEN a1
                       ELSE IF a2 \in ExportAnswers(bs1) THEN a2 ELSE "no_window"
             bs2    == IF second THEN AfterExport(bs1, fin) ELSE bs1
             calls  == <<"current_url", "current_url", "export_xml">>
                       \o (IF second THEN <<"export_xml">> ELSE <<>>)
         IN CASE ExportFailed(fin) ->
                    [fs |-> fs, bs |-> bs2, ok |-> FALSE, msg |-> "export_timeout", calls |-> calls]
              [] fin = "file_gone" ->
                    [fs |-> fs, bs |-> bs2, ok |-> FALSE, msg |-> "file_not_found", calls |-> calls]
              [] fin = "file_small" ->
                    [fs |-> fs, bs |-> bs2, ok |-> FALSE, msg |-> "invalid_data", calls |-> calls]
              [] fin = "file" ->
                    [fs |-> [fs EXCEPT !.viewer_url = t, !.last_refresh_ts = t],
                     bs |-> bs2, ok |-> TRUE, msg |-> "refreshed", calls |-> calls]

\* the debounce computed before the refresh button, lines 2968-2973
can_refresh(fs, t) == ~(fs.last_refresh_ts # 0 /\ t - fs.last_refresh_ts < Cooldown)

\* the first handle not in use: never launched, or finished and no longer
\* referenced by the flow state
FreeDrivers(fs, b) == {d \in 1..MaxDrivers : b[d] \in {"unborn", "quit", "closed"} /\ d # fs.driver}
NewDriver(fs, b) == CHOOSE d \in FreeDrivers(fs, b) : \A e \in FreeDrivers(fs, b) : d <= e

OpenAnswers == {"ok", "create_fails", "menu_fails"}

\* mutant of edit_in_drawio: the old session is not quit before the open
edit_without_teardown(fs, b, t, o) ==
    LET n == NewDriver(fs, b)
    IN CASE o = "create_fails" ->
                [fs |-> fs, b |-> b, ok |-> FALSE, msg |-> "open_failed"]
         [] o = "menu_fails" ->
                [fs |-> fs, b |-> [b EXCEPT ![n] = "stray"], ok |-> FALSE, msg |-> "open_failed"]
         [] o = "ok" ->
                [fs |-> [fs EXCEPT !.driver = n, !.mode = "drawio", !.last_refresh_ts = t],
                 b |-> [b EXCEPT ![n] = "live"], ok |-> TRUE, msg |-> "opened"]

\* the "Edit" button, lines 2907-2922, with _DrawIO.open_and_insert
\* (1773-1797): o is what opening does
edit_in_drawio(fs, b, t, o) ==
    LET b1 == IF fs.driver # 0 THEN [b EXCEPT ![fs.driver] = "quit"] ELSE b
        n  == NewDriver(fs, b)
    IN CASE o = "create_fails" ->
                [fs |-> fs, b |-> b1, ok |-> FALSE, msg |-> "open_failed"]
         [] o = "menu_fails" ->
                [fs |-> fs, b |-> [b1 EXCEPT ![n] = "stray"], ok |-> FALSE, msg |-> "open_failed"]
         [] o = "ok" ->
                [fs |-> [fs EXCEPT !.driver = n, !.mode = "drawio", !.last_refresh_ts = t],
                 b |-> [b1 EXCEPT ![n] = "live"], ok |-> TRUE, msg |-> "opened"]

HeadlessAnswers == {"ok", "create_fails", "shot_fails"}

\* "Next" at step 4, part 1 (lines 3005-3029): capture the editor's view.
\* a is what export_xml does, hv what the headless viewer screenshot does
merge_capture(fs, b, t, a, hv) ==
    IF ~BridgeActive(fs)
    THEN [fs |-> fs, bs |-> "none", png |-> None, calls |-> <<>>]
    ELSE LET bs1 == AfterExport(b[fs.driver], a) IN
         IF a \in {"file", "file_small"}
         THEN [fs |-> [fs EXCEPT !.viewer_url = t], bs |-> bs1,
               png |-> IF hv = "ok" THEN <<"viewer", "ok">> ELSE None,
               calls |-> <<"export_xml">>]
         ELSE [fs |-> fs, bs |-> bs1, png |-> None, calls |-> <<"export_xml">>]

\* make_docx_fit_one_page_from_png_or_code: the page built around a PNG
make_docx_fit_one_page_from_png_or_code(png) == <<"docx", png[1]>>

\* mutant of merge_final: the image is not opened before the page is built
merge_final_unvalidated(fs, b, t, code, a, hv, env) ==
    LET cap == merge_capture(fs, b, t, a, hv)
        png == IF Truthy(cap.png) THEN cap.png ELSE MergeRender(code, env).png
        msg == IF ~Truthy(png) THEN "no_image" ELSE "prepared"
    IN [fs |-> cap.fs, bs |-> cap.bs, calls |-> cap.calls, png |-> png,
        stored |-> Truthy(png), msg |-> msg,
        docx |-> IF msg = "prepared" THEN make_docx_fit_one_page_from_png_or_code(png)
                 ELSE None]

\* "Next" at step 4, lines 3005-3092: the capture, the fallback render, the
\* checks and the page; stored says the PNG was put into the session
merge_final(fs, b, t, code, a, hv, env) ==
    LET cap == merge_capture(fs, b, t, a, hv)
        png == IF Truthy(cap.png) THEN cap.png ELSE MergeRender(code, env).png
        msg == IF ~Truthy(png) THEN "no_image"
               ELSE IF ~PngDecodes(png) THEN "png_invalid" ELSE "prepared"
    IN [fs |-> cap.fs, bs |-> cap.bs, calls |-> cap.calls, png |-> png,
        stored |-> Truthy(png), msg |-> msg,
        docx |-> IF msg = "prepared" THEN make_docx_fit_one_page_from_png_or_code(png)
                 ELSE None]

\* environments the step-4 page is exercised with: all optional libraries
\* installed, the three later HTTP strategies unreachable
FlowEnvs ==
    {[has_requests |-> TRUE, has_cairosvg |-> TRUE, has_selenium |-> TRUE,
      http |-> [s \in HttpStrategies |-> IF s = "kroki_png" THEN k ELSE "timeout"],
      chrome |-> c] : k \in {"timeout", "body_ok", "body_corrupt"}, c \in ChromeAnswers}

\* completions the step-4 page is exercised with
SampleAnswers ==
    {[raises |-> TRUE, content |-> <<>>],
     [raises |-> FALSE, content |-> <<>>],
     [raises |-> FALSE, content |-> <<"junk">>],
     [raises |-> FALSE, content |-> <<"fence", "flowTD", "good">>],
     [raises |-> FALSE, content |-> <<"flowTD", "dangling">>]}

\* what the user can type into the "Editable Mermaid" text area
UserTexts == {<<>>, <<"ws">>, <<"flowTD", "good">>}

FlowIdle ==
    /\ step = 0 /\ mermaid_code = <<>> /\ selected_summary_buffer = FALSE
    /\ flow_state = NewFlowAppState /\ browsers = [d \in 1..MaxDrivers |-> "unborn"]
    /\ now = 0
    /\ flowchart_final_png_bytes = None /\ mermaid_png_bytes = None
    /\ flowchart_docx_buffer = None
    /\ req_ts = 0 /\ last = NoAct

(***************************************************************************)
(* Concurrent prose generation: src/main.py 1000-1084, 1117-1147.  Two     *)
(* calls are submitted to a pool of two workers; the calling thread takes  *)
(* the futures as they complete.                                           *)
(***************************************************************************)
Slots == {0, 1}
Generators == {"cover", "summary"}

\* what resp.choices[0].message.content can be: a text, "" or None
ProseContents == {<<"A">>, <<"B">>, <<>>, None}
\* exceptions a call can raise (client not initialised, service errors)
ProseErrors == {"no_client", "api_error"}
\* what pdf_to_images_and_text does for the executive summaries
PdfParses == {"pages", "no_pages", "raises"}

PendingCall == [st |-> "pending", val |-> None, err |-> "none"]
CallOutcomes ==
    [st : {"ok"}, val : ProseContents, err : {"none"}]
    \cup [st : {"raised"}, val : {None}, err : ProseErrors]

\* f"Cover letter generation failed: {e}" /
\* f"Executive summary generation failed: {e}"
FailedText(kind, e) == <<kind, "generation failed:", e>>

NoPair == <<None, None>>

\* mutant of SlotOf: the slot is the position in completion order
SlotByCompletion(done, k) == k - 1

\* idx = futures[fut] for the k-th future as_completed yields
SlotOf(done, k) == done[k]

\* outputs[idx] = fut.result(), or the placeholder when it raises
Collected(kind, c) == IF c.st = "ok" THEN c.val ELSE FailedText(kind, c.err)

\* x or ""
OrEmpty(x) == IF Truthy(x) THEN x ELSE <<>>

ProseIdle ==
    /\ g_kind = "none" /\ g_pc = "idle"
    /\ g_call = [i \in Slots |-> PendingCall]
    /\ g_done = <<>> /\ g_seen = 0
    /\ g_outputs = [i \in Slots |-> None]
    /\ g_ret = NoPair

(***************************************************************************)
(* Wizard and final assembly: src/main.py 2400-2845, 3105-3319.  A         *)
(* fragment of the final document is named by its section.                 *)
(***************************************************************************)
MaxFinals == 2

\* mutant of gather_parts: the company profile is appended before the
\* executive summary
gather_parts_profile_first(cov, rfq, es, flow) ==
    <<"cover_page">>
    \o (IF cov THEN <<"cover_letter">> ELSE <<>>)
    \o (IF rfq THEN <<"rfq_response">> ELSE <<>>)
    \o <<"company_profile">>
    \o (IF es THEN <<"exec_summary">> ELSE <<>>)
    \o (IF flow THEN <<"concept_description">> ELSE <<>>)

\* "Gather parts in required order", lines 3199-3230
gather_parts(cov, rfq, es, flow) ==
    <<"cover_page">>
    \o (IF cov THEN <<"cover_letter">> ELSE <<>>)
    \o (IF rfq THEN <<"rfq_response">> ELSE <<>>)
    \o (IF es THEN <<"exec_summary">> ELSE <<>>)
    \o <<"company_profile">>
    \o (IF flow THEN <<"concept_description">> ELSE <<>>)

\* "Validate required items", lines 3270-3279: the list named in the warning
missing(cov, rfq, es, flow) ==
    (IF ~cov THEN <<"Cover Letter">> ELSE <<>>)
    \o (IF ~rfq THEN <<"Response to RFQ">> ELSE <<>>)
    \o (IF ~es THEN <<"Executive Summary">> ELSE <<>>)
    \o (IF ~flow THEN <<"Concept Description">> ELSE <<>>)

\* mutant of can_merge: the RFQ response is not required
can_merge_without_rfq(cov, rfq, es, flow) == cov /\ es /\ flow

\* can_merge = all([cov, rfq, es, flow]), line 3280
can_merge(cov, rfq, es, flow) == cov /\ rfq /\ es /\ flow

WizardIdle ==
    /\ cover_letters = FALSE /\ selected_cover_buffer = FALSE /\ summaries = FALSE
    /\ manual_rfq_buffer = FALSE /\ final_docx_bytes = None /\ finals = 0

\* the wizard when step 4 is first shown: steps 2 and 3 offer "Next" only
\* once their options exist, and showing the options selects one
WizardAtStep4 ==
    /\ cover_letters = TRUE /\ selected_cover_buffer = TRUE /\ summaries = TRUE
    /\ manual_rfq_buffer \in BOOLEAN /\ final_docx_bytes = None /\ finals = 0

HistIdle == lost = {}

\* no file of the watched directory
NoFile == [name |-> "none", partial |-> FALSE, big |-> FALSE]
PollIdle ==
    /\ d_pc = "idle" /\ d_files = <<>> /\ d_before = NoFile /\ d_ret = NoFile
    /\ d_polls = 0
PureIdle == p_in = <<>> /\ p_out = <<>>
RestIdle == PollIdle /\ PureIdle

\* add_page_headers(doc, client_logo, falcon_logo, client_name, project_name),
\* lines 506-560: the header line names the client and the project
ClientNames   == {"acme", "globex"}
ProjectTitles == {"plant", "line"}
NoHeader == <<"None">>
HeaderOf(cn, pt) == <<cn, pt>>

\* the stored fragments that carry a page header
StoredFragments == {"rfq_response", "cover_letter", "exec_summary", "concept_description"}

\* a new session: no names entered, no fragment built
BrandIdle ==
    /\ client_name = "" /\ project_title = "" /\ rfq_upl = FALSE
    /\ headers = [f \in StoredFragments |-> NoHeader]

\* the names when step 4 is first shown after one pass through steps 1-3
BrandAtStep4 ==
    /\ client_name = "acme" /\ project_title = "plant" /\ rfq_upl = FALSE
    /\ headers = [f \in StoredFragments |->
                     IF f = "concept_description" \/ (f = "rfq_response" /\ ~manual_rfq_buffer)
                     THEN NoHeader ELSE HeaderOf("acme", "plant")]

\* what showing a page does to the stored fragments: the step-2 page
\* rebuilds both cover letter options (2635-2676) and the step-3 page both
\* summaries (2771-2812) with the session's current names
PageShown(h, st, cn, pt, cov, sums) ==
    [h EXCEPT !["cover_letter"] = IF st = 2 /\ cov THEN HeaderOf(cn, pt) ELSE @,
              !["exec_summary"] = IF st = 3 /\ sums THEN HeaderOf(cn, pt) ELSE @]

AuxIdle == ProseIdle /\ WizardIdle /\ HistIdle /\ BrandIdle /\ RestIdle

(***************************************************************************)
(* SpecRender: the inputs are drawn in Init, one action per call site      *)
(***************************************************************************)
Codes == {<<>>, <<"ws">>, <<"flowTD", "good">>}

NoRender == [site |-> "none", png |-> None, trace |-> <<>>, raised |-> FALSE]
At(site, r) == [site |-> site, png |-> r.png, trace |-> r.trace, raised |-> r.raised]

RenderIdle  == r_code = <<>> /\ r_env = None /\ r_out = NoRender
ComposeIdle == buffers_list = <<>> /\ merged = NotMerged
ImageIdle   == im_fn = "none" /\ im_in = NoImage /\ im_once = NoImage /\ im_twice = NoImage
               /\ im_pc = "idle"

InitRender ==
    /\ r_code \in Codes
    /\ r_env \in Envs
    /\ r_out = NoRender
    /\ ComposeIdle /\ ImageIdle /\ FlowIdle /\ AuxIdle

CallBestEffort ==
    /\ r_out' = At("best_effort", mermaid_to_png_best_effort(r_code, r_env))
    /\ UNCHANGED <<r_code, r_env, composeVars, imageVars, flowVars, auxVars>>

CallMergeRender ==
    /\ r_out' = At("merge", MergeRender(r_code, r_env))
    /\ UNCHANGED <<r_code, r_env, composeVars, imageVars, flowVars, auxVars>>

CallEnsureFlowchartDocx ==
    /\ r_out' = At("ensure", EnsureFlowchartRender(r_code, r_env))
    /\ UNCHANGED <<r_code, r_env, composeVars, imageVars, flowVars, auxVars>>

CallExportLatestPlain ==
    /\ r_out' = At("export_latest", ExportLatestPlain(r_code, r_env))
    /\ UNCHANGED <<r_code, r_env, composeVars, imageVars, flowVars, auxVars>>

NextRender ==
    \/ CallBestEffort
    \/ CallMergeRender
    \/ CallEnsureFlowchartDocx
    \/ CallExportLatestPlain

SpecRender == InitRender /\ [][NextRender]_vars

(***************************************************************************)
(* SpecCompose: the list is drawn in Init, Merge applies the composer      *)
(***************************************************************************)
BufferLists == UNION {[1..n -> Frags \cup {NoneBuf}] : n \in 0..MaxFrags}

InitCompose ==
    /\ buffers_list \in BufferLists
    /\ merged = NotMerged
    /\ RenderIdle /\ ImageIdle /\ FlowIdle /\ AuxIdle

Merge ==
    /\ merged = NotMerged
    /\ merged' = merge_docx_files_with_page_breaks(buffers_list)
    /\ UNCHANGED <<buffers_list, renderVars, imageVars, flowVars, auxVars>>

NextCompose == Merge

SpecCompose == InitCompose /\ [][NextCompose]_vars

(***************************************************************************)
(* SpecImage: the image and the normaliser are drawn in Init               *)
(***************************************************************************)
InitImage ==
    /\ im_fn \in {"auto_crop_png_whitespace", "require_valid_png"}
    /\ im_in \in Images
    /\ im_once = NoImage /\ im_twice = NoImage
    /\ im_pc = "in"
    /\ RenderIdle /\ ComposeIdle /\ FlowIdle /\ AuxIdle

NormaliseOnce ==
    /\ im_pc = "in"
    /\ LET r == Normalise(im_fn, im_in) IN
       /\ im_once' = r.im
       /\ im_pc' = IF r.err = "ok" THEN "once" ELSE "raised"
    /\ UNCHANGED <<im_fn, im_in, im_twice, renderVars, composeVars, flowVars, auxVars>>

NormaliseTwice ==
    /\ im_pc = "once"
    /\ LET r == Normalise(im_fn, im_once) IN
       /\ im_twice' = r.im
       /\ im_pc' = IF r.err = "ok" THEN "twice" ELSE "raised_twice"
    /\ UNCHANGED <<im_fn, im_in, im_once, renderVars, composeVars, flowVars, auxVars>>

NextImage ==
    \/ NormaliseOnce
    \/ NormaliseTwice

SpecImage == InitImage /\ [][NextImage]_vars

(***************************************************************************)
(* Spec: the step-4 flowchart page.  Init is the session when the wizard   *)
(* first shows step 4: a cover letter and an executive summary are         *)
(* selected (steps 2 and 3 cannot be left without one).                    *)
(***************************************************************************)
others == <<renderVars, composeVars, imageVars, auxVars>>
othersButLost == <<renderVars, composeVars, imageVars, proseVars, wizVars, brandVars,
                   pollVars, pureVars>>
othersButHeaders == <<renderVars, composeVars, imageVars, proseVars, wizVars, histVars,
                      client_name, project_title, rfq_upl, pollVars, pureVars>>

Init ==
    /\ step = 4
    /\ mermaid_code = <<>>
    /\ selected_summary_buffer = TRUE
    /\ flow_state = NewFlowAppState
    /\ browsers = [d \in 1..MaxDrivers |-> "unborn"]
    /\ now = 1
    /\ flowchart_final_png_bytes = None /\ mermaid_png_bytes = None
    /\ flowchart_docx_buffer = None
    /\ req_ts = 0 /\ last = NoAct
    /\ RenderIdle /\ ComposeIdle /\ ImageIdle /\ ProseIdle /\ WizardAtStep4 /\ HistIdle
    /\ BrandAtStep4 /\ RestIdle

\* the clock advances
Tick ==
    /\ now < MaxTime
    /\ now' = now + 1
    /\ UNCHANGED <<step, mermaid_code, selected_summary_buffer, flow_state, browsers,
                   flowchart_final_png_bytes, mermaid_png_bytes, flowchart_docx_buffer,
                   req_ts, last, others>>

\* the user closes the editor window (or its browser crashes)
UserClosesWindow ==
    /\ \E d \in {flow_state.driver} \ {0} :
          /\ browsers[d] \in {"live", "away"}
          /\ browsers' = [browsers EXCEPT ![d] = "closed"]
    /\ UNCHANGED <<step, mermaid_code, selected_summary_buffer, flow_state, now,
                   flowchart_final_png_bytes, mermaid_png_bytes, flowchart_docx_buffer,
                   req_ts, last, others>>

\* the user browses away from diagrams.net in the editor window, or back
UserNavigates ==
    /\ \E d \in {flow_state.driver} \ {0} :
          /\ browsers[d] \in {"live", "away"}
          /\ browsers' = [browsers EXCEPT ![d] = IF @ = "live" THEN "away" ELSE "live"]
    /\ UNCHANGED <<step, mermaid_code, selected_summary_buffer, flow_state, now,
                   flowchart_final_png_bytes, mermaid_png_bytes, flowchart_docx_buffer,
                   req_ts, last, others>>

\* "Generate flowchart from solution PDF" with inputs drawn from Answers
GenFlowFrom(Answers) ==
    /\ step = 4
    /\ \E r \in {GenFlowOutcome(mermaid_code, pdf, ans) : pdf \in PdfStates, ans \in Answers} :
          /\ mermaid_code' = r.code
          /\ last' = [Act("gen_flow", r.msg = "generated", r.msg, <<>>) EXCEPT
                         !.llm_calls = r.llm_calls]
    /\ UNCHANGED <<step, selected_summary_buffer, flow_state, browsers, now,
                   flowchart_final_png_bytes, mermaid_png_bytes, flowchart_docx_buffer,
                   req_ts, others>>

GenFlow == GenFlowFrom(SampleAnswers)

\* the user edits the text area; the page keeps the session value in sync
\* (lines 2893-2902)
EditCode ==
    /\ step = 4
    /\ \E text \in UserTexts :
          /\ text # mermaid_code
          /\ mermaid_code' = text
    /\ last' = Act("edit_code", TRUE, "none", <<>>)
    /\ UNCHANGED <<step, selected_summary_buffer, flow_state, browsers, now,
                   flowchart_final_png_bytes, mermaid_png_bytes, flowchart_docx_buffer,
                   req_ts, others>>

\* the "Edit" button
Edit ==
    /\ step = 4
    /\ \E o \in OpenAnswers :
          /\ o # "create_fails" => FreeDrivers(flow_state, browsers) # {}
          /\ LET r == edit_in_drawio(flow_state, browsers, now, o) IN
             /\ flow_state' = r.fs
             /\ browsers' = r.b
             /\ req_ts' = IF r.ok THEN 0 ELSE req_ts
             /\ lost' = IF r.ok THEN lost \ {r.fs.driver} ELSE lost
             /\ last' = Act("edit", r.ok, r.msg, <<>>)
    /\ UNCHANGED <<step, mermaid_code, selected_summary_buffer, now,
                   flowchart_final_png_bytes, mermaid_png_bytes, flowchart_docx_buffer,
                   othersButLost>>

\* the refresh button, lines 2967-2983: can_refresh is computed and then
\* _auto_refresh_drawio_preview() is called whatever its value
Refresh ==
    /\ step = 4
    /\ LET bs0 == IF flow_state.driver # 0 THEN browsers[flow_state.driver] ELSE "none" IN
       \E r \in {auto_refresh_drawio_preview(flow_state, browsers, now, a1, a2) :
                     a1 \in ExportAnswers(bs0), a2 \in ExportAnswers(bs0)} :
          /\ flow_state' = r.fs
          /\ browsers' = IF flow_state.driver # 0
                         THEN [browsers EXCEPT ![flow_state.driver] = r.bs] ELSE browsers
          /\ lost' = IF r.msg \in {"session_lost", "navigated_away"}
                     THEN lost \cup {flow_state.driver} ELSE lost
          /\ last' = [Act("refresh", r.ok, r.msg, r.calls) EXCEPT
                         !.gap = IF req_ts = 0 THEN -1 ELSE now - req_ts]
    /\ req_ts' = now
    /\ UNCHANGED <<step, mermaid_code, selected_summary_buffer, now,
                   flowchart_final_png_bytes, mermaid_png_bytes, flowchart_docx_buffer,
                   othersButLost>>

\* merge_disabled, lines 2988-2992
merge_disabled ==
    ~(selected_cover_buffer /\ selected_summary_buffer /\ Truthy(Strip(mermaid_code)))

\* "Next" at step 4, lines 3003-3092
MergeFinal ==
    /\ step = 4
    /\ ~merge_disabled
    /\ LET bs0 == IF flow_state.driver # 0 THEN browsers[flow_state.driver] ELSE "none" IN
       \E r \in {merge_final(flow_state, browsers, now, mermaid_code, a, hv, env) :
                     a \in ExportAnswers(bs0), hv \in HeadlessAnswers, env \in FlowEnvs} :
          /\ flow_state' = r.fs
          /\ browsers' = IF BridgeActive(flow_state)
                         THEN [browsers EXCEPT ![flow_state.driver] = r.bs] ELSE browsers
          /\ IF r.stored
             THEN flowchart_final_png_bytes' = r.png /\ mermaid_png_bytes' = r.png
             ELSE UNCHANGED <<flowchart_final_png_bytes, mermaid_png_bytes>>
          /\ IF r.msg = "prepared"
             THEN /\ flowchart_docx_buffer' = r.docx
                  /\ headers' = [headers EXCEPT !["concept_description"] =
                                                    HeaderOf(client_name, project_title)]
                  /\ step' = 5
             ELSE UNCHANGED <<flowchart_docx_buffer, headers, step>>
          /\ last' = Act("merge", r.msg = "prepared", r.msg, r.calls)
    /\ UNCHANGED <<mermaid_code, selected_summary_buffer, now, req_ts, othersButHeaders>>

\* "Back" at step 4, lines 3094-3097
BackStep4 ==
    /\ step = 4
    /\ step' = 3
    /\ headers' = PageShown(headers, 3, client_name, project_title, cover_letters, summaries)
    /\ last' = Act("back", TRUE, "none", <<>>)
    /\ UNCHANGED <<mermaid_code, selected_summary_buffer, flow_state, browsers, now,
                   flowchart_final_png_bytes, mermaid_png_bytes, flowchart_docx_buffer,
                   req_ts, othersButHeaders>>

\* "Next" at step 3, lines 2838-2841, offered once summaries exist (2763)
GoFlow ==
    /\ step = 3
    /\ summaries
    /\ step' = 4
    /\ last' = Act("go_flow", TRUE, "none", <<>>)
    /\ UNCHANGED <<mermaid_code, selected_summary_buffer, flow_state, browsers, now,
                   flowchart_final_png_bytes, mermaid_png_bytes, flowchart_docx_buffer,
                   req_ts, others>>

\* "Back" at step 5, lines 3313-3315
BackToFlowchart ==
    /\ step = 5
    /\ step' = 4
    /\ last' = Act("back", TRUE, "none", <<>>)
    /\ UNCHANGED <<mermaid_code, selected_summary_buffer, flow_state, browsers, now,
                   flowchart_final_png_bytes, mermaid_png_bytes, flowchart_docx_buffer,
                   req_ts, others>>

Next ==
    \/ UserClosesWindow
    \/ UserNavigates
    \/ GenFlow
    \/ EditCode
    \/ Edit
    \/ Refresh
    \/ MergeFinal
    \/ BackStep4
    \/ GoFlow
    \/ BackToFlowchart

Spec == Init /\ [][Next]_vars

(***************************************************************************)
(* SpecSynth: diagram synthesis over every completion of up to MaxRespLen  *)
(* tokens, and the text area                                               *)
(***************************************************************************)
SynthGenFlow == GenFlowFrom(LlmAnswers)

NextSynth ==
    \/ SynthGenFlow
    \/ EditCode

SpecSynth == Init /\ [][NextSynth]_vars

(***************************************************************************)
(* SpecTimed: the editor bridge with the clock running (open, refresh,     *)
(* the user's window), for the refresh cooldown                            *)
(***************************************************************************)
NextTimed ==
    \/ Tick
    \/ UserClosesWindow
    \/ UserNavigates
    \/ Edit
    \/ Refresh

SpecTimed == Init /\ [][NextTimed]_vars

\* the editor session over a diagram description that is already written:
\* opening, user interference, refreshing and merging, and the way back from
\* step 5
InitSession ==
    /\ step = 4
    /\ mermaid_code = <<"flowTD", "good">>
    /\ selected_summary_buffer = TRUE
    /\ flow_state = NewFlowAppState
    /\ browsers = [d \in 1..MaxDrivers |-> "unborn"]
    /\ now = 1
    /\ flowchart_final_png_bytes = None /\ mermaid_png_bytes = None
    /\ flowchart_docx_buffer = None
    /\ req_ts = 0 /\ last = NoAct
    /\ RenderIdle /\ ComposeIdle /\ ImageIdle /\ ProseIdle /\ WizardAtStep4 /\ HistIdle
    /\ BrandAtStep4 /\ RestIdle

NextSession ==
    \/ UserClosesWindow
    \/ UserNavigates
    \/ Edit
    \/ Refresh
    \/ MergeFinal
    \/ BackToFlowchart

SpecSession == InitSession /\ [][NextSession]_vars

(***************************************************************************)
(* SpecProse: one run of generate_cover_letters_concurrent or of           *)
(* generate_exec_summaries_concurrent; the two workers finish in any order *)
(* and the calling thread handles each future once it is done              *)
(***************************************************************************)
nonProse == <<renderVars, composeVars, imageVars, flowVars, wizVars, histVars, brandVars,
              pollVars, pureVars>>

InitProse ==
    /\ g_kind \in Generators
    /\ g_pc = "start"
    /\ g_call = [i \in Slots |-> PendingCall]
    /\ g_done = <<>> /\ g_seen = 0
    /\ g_outputs = [i \in Slots |-> None]
    /\ g_ret = NoPair
    /\ RenderIdle /\ ComposeIdle /\ ImageIdle /\ FlowIdle /\ WizardIdle /\ HistIdle
    /\ BrandIdle /\ RestIdle

\* the code before the pool: the executive summaries parse the PDF first
\* (lines 1127-1133) and return the same message twice when that fails
StartGeneration ==
    /\ g_pc = "start"
    /\ g_kind \in Generators
    /\ \E p \in IF g_kind = "summary" THEN PdfParses ELSE {"pages"} :
          CASE p = "pages"    -> g_pc' = "pool" /\ g_ret' = g_ret
            [] p = "no_pages" -> g_pc' = "returned"
                                 /\ g_ret' = <<<<"No pages found in PDF.">>,
                                               <<"No pages found in PDF.">>>>
            [] p = "raises"   -> g_pc' = "returned"
                                 /\ g_ret' = <<<<"PDF parsing failed">>, <<"PDF parsing failed">>>>
    /\ UNCHANGED <<g_kind, g_call, g_done, g_seen, g_outputs, nonProse>>

\* a worker finishes call i: it returns the completion's content or raises
CallCompletes ==
    /\ g_pc = "pool"
    /\ \E i \in Slots, o \in CallOutcomes :
          /\ g_call[i].st = "pending"
          /\ g_call' = [g_call EXCEPT ![i] = o]
          /\ g_done' = Append(g_done, i)
    /\ UNCHANGED <<g_kind, g_pc, g_seen, g_outputs, g_ret, nonProse>>

\* one iteration of "for fut in as_completed(futures)", lines 1077-1082
TakeCompleted ==
    /\ g_pc = "pool"
    /\ g_seen < Len(g_done)
    /\ LET k   == g_seen + 1
           idx == SlotOf(g_done, k)
       IN /\ g_outputs' = [g_outputs EXCEPT ![idx] = Collected(g_kind, g_call[g_done[k]])]
          /\ g_seen' = k
    /\ UNCHANGED <<g_kind, g_pc, g_call, g_done, g_ret, nonProse>>

\* return outputs[0] or "", outputs[1] or ""
ReturnPair ==
    /\ g_pc = "pool"
    /\ g_seen = Cardinality(Slots)
    /\ g_ret' = <<OrEmpty(g_outputs[0]), OrEmpty(g_outputs[1])>>
    /\ g_pc' = "returned"
    /\ UNCHANGED <<g_kind, g_call, g_done, g_seen, g_outputs, nonProse>>

NextProse ==
    \/ StartGeneration
    \/ CallCompletes
    \/ TakeCompleted
    \/ ReturnPair

SpecProse == InitProse /\ [][NextProse]_vars

(***************************************************************************)
(* SpecRequest: the two generation requests of the wizard.  Step 2 calls   *)
(* generate_cover_letters_concurrent (2565-2577); step 3 calls             *)
(* generate_executive_summary twice, one call after the other (2739-2740)  *)
(***************************************************************************)
Requests == {"cover", "summary_step3"}
WaitingCall == [st |-> "waiting", val |-> None, err |-> "none"]
SkippedCall == [st |-> "skipped", val |-> None, err |-> "none"]

\* generate_executive_summary, lines 1149-1166: the value of one call, p
\* what parsing the PDF does and o what the completion does
generate_executive_summary(p, o) ==
    CASE p = "no_pages" -> <<"No pages found in PDF.">>
      [] p = "raises"   -> <<"PDF parsing failed">>
      [] p = "pages"    -> Collected("summary", o)

InitRequest ==
    /\ g_kind \in Requests
    /\ g_pc = "start"
    /\ g_call = [i \in Slots |-> PendingCall]
    /\ g_done = <<>> /\ g_seen = 0
    /\ g_outputs = [i \in Slots |-> None]
    /\ g_ret = NoPair
    /\ RenderIdle /\ ComposeIdle /\ ImageIdle /\ FlowIdle /\ WizardIdle /\ HistIdle
    /\ BrandIdle /\ RestIdle

\* step 3, line 2739: the handler enters the first call; the second has
\* not been issued
StartSequential ==
    /\ g_pc = "start"
    /\ g_kind = "summary_step3"
    /\ g_pc' = "seq"
    /\ g_call' = [g_call EXCEPT ![1] = WaitingCall]
    /\ UNCHANGED <<g_kind, g_done, g_seen, g_outputs, g_ret, nonProse>>

\* step 3, lines 2739-2740: the running call returns its text; the handler
\* then enters the next call, or has s1 and s2 after the second
SequentialCallReturns ==
    /\ g_pc = "seq"
    /\ \E i \in Slots, p \in PdfParses, o \in CallOutcomes :
          /\ g_call[i].st = "pending"
          /\ g_outputs' = [g_outputs EXCEPT ![i] = generate_executive_summary(p, o)]
          /\ g_done' = Append(g_done, i)
          /\ g_seen' = g_seen + 1
          /\ LET finished == [g_call EXCEPT ![i] = IF p = "pages" THEN o ELSE SkippedCall] IN
             IF i = 0
             THEN /\ g_call' = [finished EXCEPT ![1] = PendingCall]
                  /\ UNCHANGED <<g_pc, g_ret>>
             ELSE /\ g_call' = finished
                  /\ g_pc' = "returned"
                  /\ g_ret' = <<g_outputs[0], g_outputs'[1]>>
    /\ UNCHANGED <<g_kind, nonProse>>

NextRequest ==
    \/ StartGeneration
    \/ CallCompletes
    \/ TakeCompleted
    \/ ReturnPair
    \/ StartSequential
    \/ SequentialCallReturns

SpecRequest == InitRequest /\ [][NextRequest]_vars

(***************************************************************************)
(* SpecPoll: the download hand-off of _DrawIO.export_xml, lines 1917-1942: *)
(* the Save button is clicked, the browser writes the file, the poller     *)
(* looks for it                                                            *)
(***************************************************************************)
MaxPolls == 3

\* files the watched directory can hold before an export: exports of
\* earlier refreshes
OldFiles == {[name |-> "old", partial |-> FALSE, big |-> b] : b \in BOOLEAN}
\* the file the browser writes for this export: "new.crdownload" while it
\* is partial, "new" once complete; big means more than 2048 bytes
NewFile(partial, big) == [name |-> "new", partial |-> partial, big |-> big]

\* the path of a file: the partial file carries the suffix .crdownload
PathOf(f) == <<f.name, IF f.partial THEN ".crdownload" ELSE "">>

\* _SeleniumHelper.get_latest_file: the file modified last, or None
get_latest_file(files) == IF files = <<>> THEN NoFile ELSE files[Len(files)]

\* the body of one iteration of the polling loop, lines 1932-1939: the
\* path it returns, or NoFile when it goes to sleep
PollOnce(files, before) ==
    LET candidate == get_latest_file(files) IN
    IF /\ candidate # NoFile
       /\ (before = NoFile \/ PathOf(candidate) # PathOf(before))
       /\ PathOf(candidate)[2] # ".crdownload"
       /\ candidate.big
    THEN candidate ELSE NoFile

nonPoll == <<renderVars, composeVars, imageVars, flowVars, proseVars, wizVars, histVars,
             brandVars, pureVars>>

InitPoll ==
    /\ d_pc = "flow"
    /\ d_files \in {<<>>} \cup {<<f>> : f \in OldFiles}
    /\ d_before = NoFile /\ d_ret = NoFile /\ d_polls = 0
    /\ RenderIdle /\ ComposeIdle /\ ImageIdle /\ FlowIdle
    /\ ProseIdle /\ WizardIdle /\ HistIdle /\ BrandIdle /\ PureIdle

\* the last click of the UI flow, lines 1921-1926: the download is triggered
ClickSave ==
    /\ d_pc = "flow"
    /\ d_pc' = "clicked"
    /\ UNCHANGED <<d_files, d_before, d_ret, d_polls, nonPoll>>

\* the browser acts only until the time of the poller is up
BrowserActive == d_pc \in {"clicked", "polling"} /\ d_polls < MaxPolls
HasNew(files) == \E i \in 1..Len(files) : files[i].name = "new"
WithoutNew(files) == SelectSeq(files, LAMBDA f : f.name # "new")

\* the browser starts writing the download
BrowserWritesPartial ==
    /\ BrowserActive
    /\ ~HasNew(d_files)
    /\ d_files' = Append(d_files, NewFile(TRUE, FALSE))
    /\ UNCHANGED <<d_pc, d_before, d_ret, d_polls, nonPoll>>

\* the browser finishes the download: the complete file is in the directory
BrowserCompletes ==
    /\ BrowserActive
    /\ \A i \in 1..Len(d_files) : d_files[i].name = "new" => d_files[i].partial
    /\ \E big \in BOOLEAN : d_files' = Append(WithoutNew(d_files), NewFile(FALSE, big))
    /\ UNCHANGED <<d_pc, d_before, d_ret, d_polls, nonPoll>>

\* before = get_latest_file(download_dir), line 1930
TakeSnapshot ==
    /\ d_pc = "clicked"
    /\ d_before' = get_latest_file(d_files)
    /\ d_pc' = "polling"
    /\ UNCHANGED <<d_files, d_ret, d_polls, nonPoll>>

\* one iteration of "while time.time() < end", lines 1932-1940
Poll ==
    /\ d_pc = "polling"
    /\ d_polls < MaxPolls
    /\ LET found == PollOnce(d_files, d_before) IN
       IF found # NoFile
       THEN d_pc' = "returned" /\ d_ret' = found /\ d_polls' = d_polls
       ELSE d_pc' = d_pc /\ d_ret' = d_ret /\ d_polls' = d_polls + 1
    /\ UNCHANGED <<d_files, d_before, nonPoll>>

\* the loop ends: RuntimeError("XML export timeout (no file downloaded)")
PollTimeout ==
    /\ d_pc = "polling"
    /\ d_polls = MaxPolls
    /\ d_pc' = "timeout"
    /\ UNCHANGED <<d_files, d_before, d_ret, d_polls, nonPoll>>

NextPoll ==
    \/ ClickSave
    \/ BrowserWritesPartial
    \/ BrowserCompletes
    \/ TakeSnapshot
    \/ Poll
    \/ PollTimeout

SpecPoll == InitPoll /\ [][NextPoll]_vars

(***************************************************************************)
(* SpecBold: one content line through save_to_docx (648-694) and           *)
(* add_runs_from_text (596-625).  A line is a sequence of characters:      *)
(* "*", "a" (any other printable character), "ws" (blank), the bullet      *)
(* glyph, and "Date" for one of the prefixes of the special lines          *)
(***************************************************************************)
MaxLineLen == 6
LineChars == {"*", "a", "ws", "bullet", "Date"}
Lines == UNION {[1..n -> LineChars] : n \in 0..MaxLineLen}

\* text[a:b] of Python, on positions 1..Len
Slice(text, a, b) == IF a > b THEN <<>> ELSE SubSeq(text, a, b)
StarsAt(text, i) == i + 1 <= Len(text) /\ text[i] = "*" /\ text[i + 1] = "*"

\* the starts, from position from on, of a match of \*\*(.+?)\*\*: two
\* asterisks, one character or more, two asterisks
MatchStarts(text, from) ==
    {i \in from..Len(text) :
        StarsAt(text, i) /\ \E j \in (i + 3)..Len(text) : StarsAt(text, j)}
\* where the closing asterisks of the match starting at i are: the first
\* possible place (the group is not greedy)
MatchClose(text, i) ==
    CHOOSE j \in (i + 3)..Len(text) :
        StarsAt(text, j) /\ \A k \in (i + 3)..(j - 1) : ~StarsAt(text, k)

Run(t, bold) == [text |-> t, bold |-> bold]
RunIf(t, bold) == IF t = <<>> THEN <<>> ELSE <<Run(t, bold)>>

\* add_runs_from_text: the runs added for text[last:], in order (last_ is
\* the local variable last)
RECURSIVE RunsFrom(_, _)
RunsFrom(text, last_) ==
    IF MatchStarts(text, last_) = {}
    THEN RunIf(Slice(text, last_, Len(text)), FALSE)
    ELSE LET i == CHOOSE m \in MatchStarts(text, last_) :
                      \A n \in MatchStarts(text, last_) : m <= n
             j == MatchClose(text, i)
         IN RunIf(Slice(text, last_, i - 1), FALSE)
            \o <<Run(Slice(text, i + 2, j - 1), TRUE)>>
            \o RunsFrom(text, j + 2)
add_runs_from_text(text) == RunsFrom(text, 1)

NoParagraph == [style |-> "none", runs |-> <<>>]

\* the body of "for para in content.split(...)" in save_to_docx, lines
\* 648-694: the paragraph added for one line, or none for a blank line
save_to_docx_line(para) ==
    LET line == Strip(para) IN
    IF line = <<>> THEN NoParagraph
    ELSE IF Head(line) \in {"bullet", "*"}
    THEN [style |-> "List Bullet", runs |-> add_runs_from_text(Strip(Tail(line)))]
    ELSE IF Head(line) = "Date"
    THEN [style |-> "Normal", runs |-> <<Run(line, TRUE)>>]
    ELSE [style |-> "Normal", runs |-> add_runs_from_text(line)]

nonPure == <<renderVars, composeVars, imageVars, flowVars, proseVars, wizVars, histVars,
             brandVars, pollVars>>
Pending == [style |-> "pending", runs |-> <<>>]

InitBold ==
    /\ p_in \in Lines
    /\ p_out = Pending
    /\ RenderIdle /\ ComposeIdle /\ ImageIdle /\ FlowIdle
    /\ ProseIdle /\ WizardIdle /\ HistIdle /\ BrandIdle /\ PollIdle

BuildParagraph ==
    /\ p_out = Pending
    /\ p_out' = save_to_docx_line(p_in)
    /\ UNCHANGED <<p_in, nonPure>>

NextBold == BuildParagraph

SpecBold == InitBold /\ [][NextBold]_vars

(***************************************************************************)
(* SpecClass: _infer_class, lines 1503-1511.  A label is a sequence of     *)
(* words separated by single blanks; a keyword is a sequence of words too  *)
(***************************************************************************)
MaxWords == 3
Words == {"Reject", "FAIL", "parts", "Accept", "Output", "Sorter", "box",
          "Return", "to", "sender"}
Labels == UNION {[1..n -> Words] : n \in 0..MaxWords}

\* str.lower() on one word
LowerWord(w) ==
    CASE w = "Reject" -> "reject" [] w = "FAIL"   -> "fail"
      [] w = "Accept" -> "accept" [] w = "Output" -> "output"
      [] w = "Sorter" -> "sorter" [] w = "Return" -> "return"
      [] OTHER -> w
Lower(label) == [i \in 1..Len(label) |-> LowerWord(label[i])]

\* the keywords of each test, in the order of the source; those made of
\* words outside Words can occur in no label of the model
RejectKeys == <<<<"reject">>, <<"rejection">>, <<"fail">>, <<"error">>, <<"technical">>,
                <<"rts">>, <<"return", "to", "sender">>>>
AcceptKeys == <<<<"accept">>, <<"approved">>, <<"success">>, <<"output">>, <<"dispatch">>>>
MainKeys   == <<<<"infeed">>, <<"volume", "distribution">>, <<"vds">>, <<"induct">>,
                <<"sorter">>, <<"cbs">>, <<"swedi">>, <<"scanning">>,
                <<"print", "&", "apply">>, <<"dimension">>, <<"weigh">>>>

\* the one-word keywords that are substrings of a lower-case word of Words
\* ("parts" holds "rts")
KeysInside(w) ==
    CASE w = "parts" -> {"rts"}
      [] w \in {"reject", "fail", "accept", "output", "sorter"} -> {w}
      [] OTHER -> {}

\* k in L
Occurs(k, L) ==
    IF Len(k) = 1
    THEN \E i \in 1..Len(L) : k[1] \in KeysInside(L[i])
    ELSE \E i \in 1..Len(L) :
            /\ i + Len(k) - 1 <= Len(L)
            /\ \A j \in 1..Len(k) : L[i + j - 1] = k[j]
\* any(k in L for k in keys)
AnyOccurs(keys, L) == \E n \in 1..Len(keys) : Occurs(keys[n], L)

\* mutant of infer_class: the accept keywords are tested first
infer_class_accept_first(label) ==
    LET L == Lower(label) IN
    IF AnyOccurs(AcceptKeys, L) THEN "accept"
    ELSE IF AnyOccurs(RejectKeys, L) THEN "reject"
    ELSE IF AnyOccurs(MainKeys, L) THEN "main"
    ELSE "sub"

\* _infer_class
infer_class(label) ==
    LET L == Lower(label) IN
    IF AnyOccurs(RejectKeys, L) THEN "reject"
    ELSE IF AnyOccurs(AcceptKeys, L) THEN "accept"
    ELSE IF AnyOccurs(MainKeys, L) THEN "main"
    ELSE "sub"

InitClass ==
    /\ p_in \in Labels
    /\ p_out = "pending"
    /\ RenderIdle /\ ComposeIdle /\ ImageIdle /\ FlowIdle
    /\ ProseIdle /\ WizardIdle /\ HistIdle /\ BrandIdle /\ PollIdle

InferClass ==
    /\ p_out = "pending"
    /\ p_out' = infer_class(p_in)
    /\ UNCHANGED <<p_in, nonPure>>

NextClass == InferClass

SpecClass == InitClass /\ [][NextClass]_vars

(***************************************************************************)
(* SpecWizard: the five wizard steps from a new session to the final       *)
(* merge, without the diagrams.net editor                                  *)
(***************************************************************************)
bridgeVars  == <<flow_state, browsers, now, req_ts>>
diagramVars == <<mermaid_code, flowchart_final_png_bytes, mermaid_png_bytes,
                 flowchart_docx_buffer>>
nonWizard   == <<renderVars, composeVars, imageVars, proseVars, histVars, pollVars,
                 pureVars>>

InitWizard ==
    /\ step = 1
    /\ mermaid_code = <<>>
    /\ selected_summary_buffer = FALSE
    /\ flow_state = NewFlowAppState
    /\ browsers = [d \in 1..MaxDrivers |-> "unborn"]
    /\ now = 1
    /\ flowchart_final_png_bytes = None /\ mermaid_png_bytes = None
    /\ flowchart_docx_buffer = None
    /\ req_ts = 0 /\ last = NoAct
    /\ WizardIdle /\ HistIdle /\ BrandIdle /\ RestIdle
    /\ RenderIdle /\ ComposeIdle /\ ImageIdle /\ ProseIdle

\* step 1: an RFQ diagram is uploaded with the required fields filled in,
\* lines 2488-2513; building the page can fail
UploadRfq ==
    /\ step = 1
    /\ \E built \in BOOLEAN, cn \in ClientNames, pt \in ProjectTitles :
          /\ manual_rfq_buffer' = (manual_rfq_buffer \/ built)
          /\ headers' = [headers EXCEPT !["rfq_response"] =
                                            IF built THEN HeaderOf(cn, pt) ELSE @]
          /\ last' = Act("upload_rfq", built, "none", <<>>)
    /\ rfq_upl' = TRUE
    /\ UNCHANGED <<step, selected_summary_buffer, cover_letters, selected_cover_buffer,
                   summaries, final_docx_bytes, finals, client_name, project_title,
                   diagramVars, bridgeVars, nonWizard>>

\* step 1 "Next", lines 2527-2542 (enabled once the required fields are filled)
\* the text inputs hold cn and pt; a file still in the uploader makes this
\* run build the RFQ page again (2488-2513) before the names are stored, and
\* leaving the page empties the uploader
ProceedStep1 ==
    /\ step = 1
    /\ step' = 2
    /\ \E cn \in ClientNames, pt \in ProjectTitles,
          built \in (IF rfq_upl THEN BOOLEAN ELSE {FALSE}) :
          /\ client_name' = cn /\ project_title' = pt
          /\ manual_rfq_buffer' = (manual_rfq_buffer \/ built)
          /\ headers' = PageShown([headers EXCEPT !["rfq_response"] =
                                      IF built THEN HeaderOf(cn, pt) ELSE @],
                                  2, cn, pt, cover_letters, summaries)
    /\ rfq_upl' = FALSE
    /\ last' = Act("next", TRUE, "none", <<>>)
    /\ UNCHANGED <<selected_summary_buffer, cover_letters, selected_cover_buffer,
                   summaries, final_docx_bytes, finals, diagramVars, bridgeVars, nonWizard>>

\* step 2 "Generate Cover Letter Options", lines 2562-2625, and the page
\* shown after it: once options exist the radio selects one (2627-2697)
GenerateCoverLetters ==
    /\ step = 2
    /\ \E generated \in BOOLEAN :
          /\ cover_letters' = (cover_letters \/ generated)
          /\ selected_cover_buffer' = (selected_cover_buffer \/ cover_letters')
          /\ headers' = PageShown(headers, 2, client_name, project_title,
                                  cover_letters', summaries)
          /\ last' = Act("gen_cover", generated, "none", <<>>)
    /\ UNCHANGED <<step, selected_summary_buffer, summaries, manual_rfq_buffer,
                   final_docx_bytes, finals, client_name, project_title, rfq_upl,
                   diagramVars, bridgeVars, nonWizard>>

\* step 2 "Next", lines 2703-2712
ContinueToStep3 ==
    /\ step = 2
    /\ cover_letters /\ selected_cover_buffer
    /\ step' = 3
    /\ headers' = PageShown(headers, 3, client_name, project_title, cover_letters, summaries)
    /\ last' = Act("next", TRUE, "none", <<>>)
    /\ UNCHANGED <<selected_summary_buffer, wizVars, client_name, project_title, rfq_upl,
                   diagramVars, bridgeVars, nonWizard>>

\* step 2 "Back", lines 2713-2716
RetryStep2 ==
    /\ step = 2
    /\ cover_letters
    /\ step' = 1
    /\ last' = Act("back", TRUE, "none", <<>>)
    /\ UNCHANGED <<selected_summary_buffer, wizVars, brandVars, diagramVars, bridgeVars,
                   nonWizard>>

\* step 3 "Generate Executive Summary Options", lines 2733-2761, and the
\* page shown after it (2763-2832)
GenerateSummaries ==
    /\ step = 3
    /\ \E generated \in BOOLEAN :
          /\ summaries' = (summaries \/ generated)
          /\ selected_summary_buffer' = (selected_summary_buffer \/ summaries')
          /\ headers' = PageShown(headers, 3, client_name, project_title,
                                  cover_letters, summaries')
          /\ last' = Act("gen_summary", generated, "none", <<>>)
    /\ UNCHANGED <<step, cover_letters, selected_cover_buffer, manual_rfq_buffer,
                   final_docx_bytes, finals, client_name, project_title, rfq_upl,
                   diagramVars, bridgeVars, nonWizard>>

\* mutant of RetryStep3: Back at step 3 returns to the first step
RetryStep3_to_first ==
    /\ step = 3
    /\ summaries
    /\ step' = 1
    /\ headers' = PageShown(headers, 2, client_name, project_title, cover_letters, summaries)
    /\ last' = Act("back", TRUE, "none", <<>>)
    /\ UNCHANGED <<selected_summary_buffer, wizVars, client_name, project_title, rfq_upl,
                   diagramVars, bridgeVars, nonWizard>>

\* step 3 "Back", lines 2842-2845
RetryStep3 ==
    /\ step = 3
    /\ summaries
    /\ step' = 2
    /\ headers' = PageShown(headers, 2, client_name, project_title, cover_letters, summaries)
    /\ last' = Act("back", TRUE, "none", <<>>)
    /\ UNCHANGED <<selected_summary_buffer, wizVars, client_name, project_title, rfq_upl,
                   diagramVars, bridgeVars, nonWizard>>

\* step 5 "Generate Final Proposal", lines 3280-3308: disabled unless
\* can_merge; the merge can raise, which only shows an error
GenerateFinal ==
    /\ step = 5
    /\ finals < MaxFinals
    /\ LET cov  == selected_cover_buffer
           rfq  == manual_rfq_buffer
           es   == selected_summary_buffer
           flow == Truthy(flowchart_docx_buffer)
           parts == gather_parts(cov, rfq, es, flow)
       IN /\ can_merge(cov, rfq, es, flow)
          /\ \E raises \in BOOLEAN :
                LET merged_buffer == merge_docx_files_with_page_breaks(parts)
                    done == ~raises /\ merged_buffer.err = "ok"
                IN /\ final_docx_bytes' = IF done THEN merged_buffer.doc ELSE final_docx_bytes
                   /\ finals' = IF done THEN finals + 1 ELSE finals
                   /\ last' = Act("final_merge", done,
                                  IF done THEN "created" ELSE "merge_failed", <<>>)
    /\ UNCHANGED <<step, selected_summary_buffer, cover_letters, selected_cover_buffer,
                   summaries, manual_rfq_buffer, brandVars, diagramVars, bridgeVars,
                   nonWizard>>

\* step 5 "Restart", lines 3316-3319
Restart ==
    /\ step = 5
    /\ step' = 1
    /\ finals' = 0
    /\ last' = Act("restart", TRUE, "none", <<>>)
    /\ UNCHANGED <<selected_summary_buffer, cover_letters, selected_cover_buffer,
                   summaries, manual_rfq_buffer, final_docx_bytes, brandVars, diagramVars,
                   bridgeVars, nonWizard>>

NextWizard ==
    \/ UploadRfq
    \/ ProceedStep1
    \/ GenerateCoverLetters
    \/ ContinueToStep3
    \/ RetryStep2
    \/ GenerateSummaries
    \/ RetryStep3
    \/ GoFlow
    \/ GenFlow
    \/ EditCode
    \/ MergeFinal
    \/ BackStep4
    \/ GenerateFinal
    \/ BackToFlowchart
    \/ Restart

SpecWizard == InitWizard /\ [][NextWizard]_vars

(***************************************************************************)
(* Properties of the render chain                                          *)
(***************************************************************************)
\* position of a strategy in the fixed order
Rank(s) == CHOOSE i \in 1..Len(StrategyOrder) : StrategyOrder[i] = s

\* strategy s, when asked, hands back a non-empty image in environment env
Succeeds(s, env) ==
    CASE s \in {"kroki_png", "ink_png"} -> env.http[s] \in {"body_ok", "body_corrupt"}
      [] s \in {"kroki_svg", "ink_svg"} -> env.http[s] = "body_ok" /\ env.has_cairosvg
      [] s = "chrome"                   -> env.chrome = "ok"

\* strategy s can be asked at all (its optional library is installed)
Available(s, env) == IF s = "chrome" THEN env.has_selenium ELSE env.has_requests

\* the call sites whose value is the value the chain returned
ChainSites == {"best_effort", "merge", "export_latest"}

\* C5: strategies are invoked in the fixed order, each one only after every
\* strategy invoked before it has failed; the value returned is the output of
\* the strategy that succeeded, and a rendering strategy 1 is the only one
\* invoked.
C5_ShortCircuit ==
    r_out.site \in ChainSites =>
        /\ \A i, j \in 1..Len(r_out.trace) :
               i < j => /\ Rank(r_out.trace[i]) < Rank(r_out.trace[j])
                        /\ ~Succeeds(r_out.trace[i], r_env)
        /\ \A i \in 1..Len(r_out.trace) :
               Succeeds(r_out.trace[i], r_env) =>
                   /\ i = Len(r_out.trace)
                   /\ r_out.png = <<r_out.trace[i], IF r_out.trace[i] = "chrome" THEN "ok"
                          ELSE IF r_env.http[r_out.trace[i]] = "body_ok" THEN "ok" ELSE "corrupt">>
        /\ (r_env.has_requests /\ Truthy(Strip(r_code)) /\ Succeeds("kroki_png", r_env)) =>
               r_out.trace = <<"kroki_png">>

\* C5 witness: strategy 1 rendered and nothing else was asked
C5_Witness ==
    /\ r_out.site = "best_effort"
    /\ r_env.http["kroki_png"] = "body_ok"
    /\ r_env.http["kroki_svg"] = "body_ok" /\ r_env.has_cairosvg
    /\ r_out.trace = <<"kroki_png">>
    /\ r_out.png = <<"kroki_png", "ok">>

\* only the headless-browser strategy can render in env
OnlyChromeRenders(env) ==
    /\ env.has_selenium /\ env.chrome = "ok"
    /\ \A s \in HttpStrategies : ~(env.has_requests /\ Succeeds(s, env))

\* C6 (as claimed): at every call site a non-blank diagram that only the
\* headless browser can render still yields the browser's image, without
\* an exception.
C6_FullChainEverywhere ==
    (r_out.site # "none" /\ Truthy(Strip(r_code)) /\ OnlyChromeRenders(r_env)) =>
        /\ ~r_out.raised
        /\ r_out.png = <<"chrome", "ok">>

\* C7: mermaid_to_png_best_effort never raises, and when no strategy
\* produces an image (or the text is empty) its value is None.
C7_FailureIsValue ==
    r_out.site = "best_effort" =>
        /\ ~r_out.raised
        /\ (\/ ~Truthy(r_code)
            \/ \A s \in {StrategyOrder[i] : i \in 1..Len(StrategyOrder)} :
                   ~(Available(s, r_env) /\ Succeeds(s, r_env)))
           => r_out.png = None

\* C7 witness: every strategy was asked, every one failed (the first by a
\* timeout), and the caller got None
C7_Witness ==
    /\ r_out.site = "best_effort"
    /\ r_out.trace = StrategyOrder
    /\ r_env.http["kroki_png"] = "timeout"
    /\ r_out.png = None /\ ~r_out.raised

(***************************************************************************)
(* Properties of the composer                                              *)
(***************************************************************************)
RECURSIVE NonNull(_)
NonNull(bl) ==
    IF bl = <<>> THEN <<>>
    ELSE IF Head(bl) = NoneBuf THEN NonNull(Tail(bl)) ELSE <<Head(bl)>> \o NonNull(Tail(bl))

BreaksIn(doc) == Cardinality({i \in 1..Len(doc) : doc[i] = PageBreak})
BodiesIn(doc) == Cardinality({i \in 1..Len(doc) : doc[i] # PageBreak})

\* C8: the composer fails exactly when the list is empty or starts with a
\* None entry; otherwise it succeeds whatever None entries follow, every
\* non-None fragment is in the result and a None entry adds no page break.
C8_ComposerErrors ==
    merged # NotMerged =>
        /\ (merged.err = "ValueError") <=> (buffers_list = <<>> \/ buffers_list[1] = NoneBuf)
        /\ merged.err \in {"ValueError", "ok"}
        /\ merged.err = "ok" =>
               /\ BodiesIn(merged.doc) = Len(NonNull(buffers_list))
               /\ BreaksIn(merged.doc) = Len(NonNull(Tail(buffers_list)))

\* C8 witness: a valid first fragment, a None entry in the middle, a
\* fragment after it, composed without error
C8_Witness ==
    /\ Len(buffers_list) = 3
    /\ buffers_list[1] # NoneBuf /\ buffers_list[2] = NoneBuf /\ buffers_list[3] # NoneBuf
    /\ merged.err = "ok"
    /\ BreaksIn(merged.doc) = 1

\* C9: a successful composition of the non-None fragments f1..fk is
\* f1, break, f2, ..., break, fk: one break right before each of f2..fk, none
\* after fk, and f1 alone when k = 1.
C9_PageBreaks ==
    merged.err = "ok" =>
        LET f == NonNull(buffers_list)
            k == Len(f)
        IN /\ k >= 1
           /\ Len(merged.doc) = 2 * k - 1
           /\ \A i \in 1..k : merged.doc[2 * i - 1] = f[i]
           /\ \A i \in 1..(k - 1) : merged.doc[2 * i] = PageBreak

\* C9 witness: three fragments give five parts with two breaks
C9_Witness ==
    /\ buffers_list = <<"cover", "letter", "summary">>
    /\ merged.err = "ok"
    /\ merged.doc = <<"cover", PageBreak, "letter", PageBreak, "summary">>

(***************************************************************************)
(* Properties of the image normalisation                                   *)
(***************************************************************************)
\* C10 (as claimed): normalising a normalised image keeps its dimensions.
C10_Idempotent ==
    im_pc = "twice" => (im_twice.w = im_once.w /\ im_twice.h = im_once.h)

(***************************************************************************)
(* Properties of the step-4 page                                           *)
(***************************************************************************)
ExportCalls == {"export_xml", "export_png"}
CallsIn(calls) == {calls[i] : i \in 1..Len(calls)}

\* C1 (as claimed): a refresh request issued less than Cooldown seconds after
\* the previous refresh request of the same editor session makes no call to
\* the XML export.
C1_CooldownSkipsExport ==
    (last.act = "refresh" /\ last.gap >= 0 /\ last.gap < Cooldown) =>
        "export_xml" \notin CallsIn(last.calls)

\* C2 (as claimed): a refresh or a final-merge capture that starts with an
\* editor session whose window is closed clears driver and mode and makes no
\* export call against the handle.
C2_LivenessBeforeExport ==
    (last.act \in {"refresh", "merge"} /\ last.was_active /\ last.was_dead) =>
        /\ flow_state.driver = 0
        /\ flow_state.mode = "None"
        /\ CallsIn(last.calls) \cap ExportCalls = {}

\* C3 (as claimed): the invalid-synthesis error is shown only after the
\* synthesis call has been made twice for the request.
C3_RetryOnce ==
    (last.act = "gen_flow" /\ last.msg = "invalid_mermaid" /\ last.llm_calls >= 1) =>
        last.llm_calls = 2

\* every edge endpoint is a declared node, every node has one class statement
ValidDiagram(d) ==
    /\ \A e \in d.edges : e[1] \in d.nodes /\ e[2] \in d.nodes
    /\ \A n \in d.nodes : Cardinality({c \in d.classes : c[1] = n}) = 1

\* C4 (as claimed): a diagram the generate button accepts and stores has all
\* edge endpoints declared and exactly one class per node.
C4_StoredDiagramValid ==
    (last.act = "gen_flow" /\ last.ok) =>
        ValidDiagram(parse_mermaid_nodes_edges(mermaid_code))

(***************************************************************************)
(* Properties of the concurrent prose generation                           *)
(***************************************************************************)
\* C11: when the concurrent generator has returned after running its two
\* calls, slot i of the pair holds the text of call i if call i returned
\* (the empty text when the completion carried none) and the diagnostic
\* placeholder naming call i's error if call i raised, whatever the other
\* call did and whichever call finished first; the generator never ends by
\* raising.
C11_FanOutIsolation ==
    /\ g_pc \in {"idle", "start", "pool", "returned"}
    /\ (g_pc = "returned" /\ Len(g_done) = Cardinality(Slots)) =>
          \A i \in Slots :
             g_ret[i + 1] = IF g_call[i].st = "ok" THEN OrEmpty(g_call[i].val)
                            ELSE FailedText(g_kind, g_call[i].err)

\* call 1 finished first and raised, call 0 returned a text
C11_Witness ==
    /\ g_pc = "returned"
    /\ g_done = <<1, 0>>
    /\ g_call[1].st = "raised"
    /\ g_call[0].st = "ok" /\ g_call[0].val = <<"A">>
    /\ g_ret[1] = <<"A">>

(***************************************************************************)
(* Properties of the final assembly                                        *)
(***************************************************************************)
AssemblyOrder == <<"cover_page", "cover_letter", "rfq_response", "exec_summary",
                   "company_profile", "concept_description">>
AssemblyRank(f) == CHOOSE i \in 1..Len(AssemblyOrder) : AssemblyOrder[i] = f
\* the fragments of a composed document, in document order
FragmentsOf(doc) == SelectSeq(doc, LAMBDA x : x # PageBreak)

\* C12: in every final document the fragments present appear in the order
\* cover page, cover letter, RFQ response, executive summary, company
\* profile, diagram page, each at most once, whatever the user did before.
C12_FixedAssemblyOrder ==
    final_docx_bytes # None =>
        LET b == FragmentsOf(final_docx_bytes) IN
        /\ \A i \in 1..Len(b) : \E k \in 1..Len(AssemblyOrder) : AssemblyOrder[k] = b[i]
        /\ \A i, j \in 1..Len(b) : i < j => AssemblyRank(b[i]) < AssemblyRank(b[j])

\* a second final document, made after going back and regenerating
C12_Witness ==
    /\ final_docx_bytes # None
    /\ finals = 2
    /\ Len(FragmentsOf(final_docx_bytes)) = Len(AssemblyOrder)

RequiredSections == {"Cover Letter", "Response to RFQ", "Executive Summary",
                     "Concept Description"}
SectionPresent(sec) ==
    CASE sec = "Cover Letter"        -> selected_cover_buffer
      [] sec = "Response to RFQ"     -> manual_rfq_buffer
      [] sec = "Executive Summary"   -> selected_summary_buffer
      [] sec = "Concept Description" -> Truthy(flowchart_docx_buffer)

\* C13: at step 5 the warning names exactly the required sections (cover
\* letter, RFQ response, executive summary, diagram page) that are absent,
\* each once, and a final merge has been run only with all four present.
C13_FinalizationBlock ==
    step = 5 =>
        LET m == missing(selected_cover_buffer, manual_rfq_buffer, selected_summary_buffer,
                         Truthy(flowchart_docx_buffer))
        IN /\ \A sec \in RequiredSections :
                 (\E i \in 1..Len(m) : m[i] = sec) <=> ~SectionPresent(sec)
           /\ Len(m) = Cardinality({sec \in RequiredSections : ~SectionPresent(sec)})
           /\ last.act = "final_merge" => \A sec \in RequiredSections : SectionPresent(sec)

\* step 5 reached without an RFQ response: the merge is blocked and the
\* warning names that section alone
C13_Witness ==
    /\ step = 5
    /\ ~manual_rfq_buffer
    /\ finals = 0
    /\ missing(selected_cover_buffer, manual_rfq_buffer, selected_summary_buffer,
               Truthy(flowchart_docx_buffer)) = <<"Response to RFQ">>

(***************************************************************************)
(* Properties of the editor bridge                                         *)
(***************************************************************************)
\* the bridge holds no session handle and is not in editor mode
BridgeClosed(fs) == fs.driver = 0 /\ fs.mode = "None"

\* C14: whenever the Edit handler has failed to open the editor, the bridge
\* is Closed: it holds no session handle and is not in editor mode, also
\* when a session was Active before the attempt.
C14_FailedOpenIsClosed ==
    (last.act = "edit" /\ ~last.ok) => BridgeClosed(flow_state)

\* the browsers of editor sessions: windows that a successful open handed to
\* the bridge and that are still open, on diagrams.net or navigated away (a
\* window left by an open that failed at a menu control was never a session)
OpenSessions == {d \in 1..MaxDrivers : browsers[d] \in {"live", "away"}}

\* C15: at most one editor session is open at any time, it is the one the
\* bridge holds, and an open attempted while a session existed has torn that
\* session down even when the new open then failed.
C15_SingleSession ==
    /\ Cardinality(OpenSessions) <= 1
    /\ \A d \in OpenSessions : BridgeActive(flow_state) /\ flow_state.driver = d
    /\ (last.act = "edit" /\ ~last.ok) => OpenSessions = {}

\* a second open succeeded while a session was Active: the old session has
\* been quit and the new one is the only open session
C15_Witness ==
    /\ last.act = "edit" /\ last.ok /\ last.was_active
    /\ \E d \in 1..MaxDrivers : browsers[d] = "quit"
    /\ OpenSessions = {flow_state.driver}

NumExports(calls) == Cardinality({i \in 1..Len(calls) : calls[i] = "export_xml"})

\* C16: a refresh request against a live session runs the export at most
\* twice, the second time only after the first failed; when both attempts
\* fail the request fails with the export-timeout error and the bridge keeps
\* its session handle and editor mode; when an attempt delivers the markup
\* the request succeeds, the bridge stays Active and the preview is renewed.
C16_BoundedExportRetry ==
    /\ (BridgeActive(flow_state) /\ browsers[flow_state.driver] = "live") =>
          \A a1 \in ExportAnswers("live") :
          \A a2 \in ExportAnswers(AfterExport("live", a1)) :
             LET r == auto_refresh_drawio_preview(flow_state, browsers, now, a1, a2)
                 n == NumExports(r.calls)
             IN /\ n = IF ExportFailed(a1) THEN 2 ELSE 1
                /\ BridgeActive(r.fs) /\ r.fs.driver = flow_state.driver
                /\ (ExportFailed(a1) /\ ExportFailed(a2)) =>
                      /\ ~r.ok /\ r.msg = "export_timeout"
                      /\ r.fs = flow_state
                /\ (a1 = "file" \/ (ExportFailed(a1) /\ a2 = "file")) =>
                      /\ r.ok /\ r.fs.viewer_url = now
    /\ last.act = "refresh" =>
          /\ NumExports(last.calls) <= 2
          /\ last.msg = "export_timeout" =>
                ~last.ok /\ BridgeActive(flow_state) /\ NumExports(last.calls) = 2
          /\ last.ok => BridgeActive(flow_state) /\ flow_state.viewer_url = req_ts

\* a refresh whose two export attempts failed: the bridge is still Active
C16_Witness ==
    /\ last.act = "refresh" /\ last.msg = "export_timeout"
    /\ NumExports(last.calls) = 2
    /\ BridgeActive(flow_state)

\* C17: no handler exports from a session for which a liveness probe has
\* failed (window closed, handle invalid, or navigated away from
\* diagrams.net); such a session is only left behind by a new open.
C17_LostOnlyReopens ==
    (last.act \in {"refresh", "merge"} /\ NumExports(last.calls) > 0) =>
        flow_state.driver \notin lost

(***************************************************************************)
(* Properties of finalization and of failures                              *)
(***************************************************************************)
\* the sections of the Proposal Assembly and the output artifact
AssemblySections ==
    <<selected_cover_buffer, manual_rfq_buffer, selected_summary_buffer,
      mermaid_code, flowchart_docx_buffer>>

\* C18: once the Proposal Assembly has been finalized, every step other
\* than a restart of the wizard leaves all sections, the output artifact and
\* the number of finalizations as they are: no section is edited and no
\* second finalization takes place.
C18_FinalizationTerminal ==
    [][(finals >= 1 /\ ~(step = 5 /\ step' = 1)) =>
          UNCHANGED <<AssemblySections, final_docx_bytes, finals>>]_vars

\* the stored Diagram Description, diagram image, diagram page and output
DiagramAndAssembly ==
    <<mermaid_code, flowchart_final_png_bytes, mermaid_png_bytes,
      flowchart_docx_buffer, final_docx_bytes>>

\* the stored diagram page is the page built from the stored diagram image
ImageAndPageAgree ==
    /\ mermaid_png_bytes = flowchart_final_png_bytes
    /\ flowchart_docx_buffer = make_docx_fit_one_page_from_png_or_code(flowchart_final_png_bytes)

\* C19: a handler that fails either leaves the stored Diagram Description,
\* the stored diagram image, the diagram page and the output artifact
\* exactly as they were, or leaves an image and a page that belong together.
C19_FailureAtomicity ==
    [][~last'.ok => (UNCHANGED DiagramAndAssembly \/ ImageAndPageAgree')]_vars

(***************************************************************************)
(* Properties of the render chain under failures                           *)
(***************************************************************************)
\* strategy s, when asked, answers with an image that decodes
ProducesValid(s, env) ==
    /\ Available(s, env)
    /\ CASE s \in {"kroki_png", "ink_png"} -> env.http[s] = "body_ok"
         [] s \in {"kroki_svg", "ink_svg"} -> env.http[s] = "body_ok" /\ env.has_cairosvg
         [] s = "chrome"                   -> env.chrome = "ok"

\* C20: a strategy that times out, answers a non-200 status, an empty body
\* or a corrupt image counts as failed and the chain moves on: whenever some
\* strategy of the chain would produce a valid image for the text, the
\* renderer returns a valid image, never the corrupt one of an earlier
\* strategy.
C20_AnyFailureAdvances ==
    (/\ r_out.site = "best_effort" /\ Truthy(Strip(r_code))
     /\ \E i \in 1..Len(StrategyOrder) : ProducesValid(StrategyOrder[i], r_env))
        => PngDecodes(r_out.png)

(***************************************************************************)
(* Properties of the page headers                                          *)
(***************************************************************************)
\* the fragments of step 5 that carry a header: the stored ones that are
\* gathered (3199-3230) and the company profile, which the step-5 page
\* builds anew with the session's current names (3153-3165)
GatheredHeaders ==
    {headers[f] : f \in {g \in StoredFragments : headers[g] # NoHeader}}
        \cup {HeaderOf(client_name, project_title)}

\* C21: after every successful final merge, every fragment with a header
\* was built from the session's current client name and project title.
C21_UniformBranding ==
    (last.act = "final_merge" /\ last.ok) =>
        GatheredHeaders = {HeaderOf(client_name, project_title)}

(***************************************************************************)
(* Properties of the generation requests                                   *)
(***************************************************************************)
\* C22: while a generation request of the wizard is running, neither of its
\* two candidate calls is waiting for the other one to finish, and the
\* request returns only when both calls have completed or failed.
C22_ConcurrentPair ==
    /\ g_pc \in {"pool", "seq"} => \A i \in Slots : g_call[i].st # "waiting"
    /\ g_pc = "returned" => \A i \in Slots : g_call[i].st \notin {"waiting", "pending"}

(***************************************************************************)
(* Properties of a refresh that loses its session                          *)
(***************************************************************************)
\* C23: a refresh request during whose export attempts the editor window
\* of a live session goes away ends with the bridge reset (no handle, no
\* editor mode) and does not report an export timeout.
C23_LossDuringExportResets ==
    [][(/\ last'.act = "refresh" /\ last' # last
        /\ NumExports(last'.calls) > 0
        /\ BridgeActive(flow_state)
        /\ browsers[flow_state.driver] = "live"
        /\ browsers'[flow_state.driver] = "closed")
       => (BridgeClosed(flow_state') /\ last'.msg # "export_timeout")]_vars

(***************************************************************************)
(* Properties of the download hand-off                                     *)
(***************************************************************************)
\* the export's file is in the directory, complete and above the minimum
Delivered(files) == \E i \in 1..Len(files) : files[i] = NewFile(FALSE, TRUE)

\* C24: the poller ends with a timeout only if the export's complete file
\* above the minimum size did not appear in time, whenever after the click
\* it appeared; and the file it returns is the export's file, complete and
\* above the minimum size, never a partial, small or older file.
C24_DownloadHandOff ==
    /\ d_pc = "timeout" => ~Delivered(d_files)
    /\ d_pc = "returned" => d_ret = NewFile(FALSE, TRUE)

(***************************************************************************)
(* Properties of the fragment builder                                      *)
(***************************************************************************)
RECURSIVE RunTexts(_)
\* the texts of a sequence of runs, joined
RunTexts(runs) == IF runs = <<>> THEN <<>> ELSE Head(runs).text \o RunTexts(Tail(runs))

RECURSIVE WithoutPairs(_)
\* a line with its paired ** delimiters removed and nothing else
WithoutPairs(text) ==
    IF MatchStarts(text, 1) = {} THEN text
    ELSE LET i == CHOOSE m \in MatchStarts(text, 1) : \A n \in MatchStarts(text, 1) : m <= n
             j == MatchClose(text, i)
         IN Slice(text, 1, i - 1) \o Slice(text, i + 2, j - 1)
            \o WithoutPairs(Slice(text, j + 2, Len(text)))

\* the line begins with an inline bold span
BeginsWithBold(line) == 1 \in MatchStarts(line, 1)
\* the line is a list item: it begins with a bullet glyph, or with a single
\* asterisk that opens no bold span
IsListItem(line) == Head(line) = "bullet" \/ (Head(line) = "*" /\ ~BeginsWithBold(line))

\* C25: for every non-blank line that is no list item, the runs of the
\* paragraph spell the line with only its paired delimiters removed, and a
\* line that begins with an inline bold span is not made a list item.
C25_InlineBoldPreservesText ==
    (p_out # Pending /\ Strip(p_in) # <<>> /\ ~IsListItem(Strip(p_in))) =>
        /\ p_out.style # "List Bullet"
        /\ RunTexts(p_out.runs) = WithoutPairs(Strip(p_in))

(***************************************************************************)
(* Properties of the class inference                                       *)
(***************************************************************************)
\* the label, in lower case, holds a word of ws or a word with one of ws
\* inside it
HoldsOneOf(label, ws) ==
    \E i \in 1..Len(label) : \E w \in ws : w \in KeysInside(LowerWord(label[i])) \cup {LowerWord(label[i])}
HoldsReturnToSender(label) ==
    \E i \in 1..Len(label) :
        /\ i + 2 <= Len(label)
        /\ <<LowerWord(label[i]), LowerWord(label[i + 1]), LowerWord(label[i + 2])>>
              = <<"return", "to", "sender">>
RejectType(label) == HoldsOneOf(label, {"reject", "fail", "rts"}) \/ HoldsReturnToSender(label)
AcceptType(label) == HoldsOneOf(label, {"accept", "output"})
CoreEquipment(label) == HoldsOneOf(label, {"sorter"})

\* C26: the class inferred for a label is one of the four classes; it is
\* reject when the label holds a reject-type keyword, else accept when it
\* holds an accept-type keyword, else the primary class (main) when it holds
\* a core-equipment keyword, else the secondary class (sub).
C26_ClassInference ==
    p_out # "pending" =>
        /\ p_out \in {"reject", "accept", "main", "sub"}
        /\ p_out = IF RejectType(p_in) THEN "reject"
                   ELSE IF AcceptType(p_in) THEN "accept"
                   ELSE IF CoreEquipment(p_in) THEN "main"
                   ELSE "sub"

\* a label with an accept keyword, a core-equipment keyword and a reject
\* keyword in upper case is inferred reject
C26_Witness ==
    /\ p_in = <<"Accept", "Sorter", "FAIL">>
    /\ p_out = "reject"

(***************************************************************************)
(* Properties of the wizard navigation                                     *)
(***************************************************************************)
\* C27: the wizard step is always an integer in 1..5, and every change of
\* the step is Next to the following step, Back to the preceding step, or
\* Restart from step 5 to step 1.
C27_StepInvariant ==
    /\ [](step \in 1..5)
    /\ [][step' # step =>
            \/ step' = step + 1 /\ last'.act \in {"next", "go_flow", "merge"}
            \/ step' = step - 1 /\ last'.act = "back"
            \/ step = 5 /\ step' = 1 /\ last'.act = "restart"]_vars

\* Restart has brought the wizard from the last step back to the first
C27_Witness ==
    /\ step = 1
    /\ last.act = "restart"

\* the diagram page in the session is the one built from the stored image
PagePresent ==
    /\ flowchart_docx_buffer # None
    /\ PngDecodes(flowchart_final_png_bytes)
    /\ flowchart_docx_buffer = make_docx_fit_one_page_from_png_or_code(flowchart_final_png_bytes)

Preview(fs) == <<fs.viewer_url, fs.last_refresh_ts>>

\* C29: a call of the preview refresh that returns failure leaves the viewer
\* link and the last-refresh time of the flow state as they were; a call
\* that returns success sets both, to the link and the time of that call.
\* The first conjunct is about every call that can be made in a reachable
\* state, the second about the calls the refresh button made.
C29_FailedRefreshKeepsPreview ==
    /\ [](\A a1, a2 \in ExportAnswers(IF flow_state.driver # 0
                                      THEN browsers[flow_state.driver] ELSE "none") :
            LET r == auto_refresh_drawio_preview(flow_state, browsers, now, a1, a2) IN
            IF r.ok THEN Preview(r.fs) = <<now, now>>
                    ELSE Preview(r.fs) = Preview(flow_state))
    /\ [][(last' # last /\ last'.act = "refresh") =>
              IF last'.ok THEN Preview(flow_state') = <<now, now>>
                          ELSE Preview(flow_state') = Preview(flow_state)]_vars

\* a refresh failed at its export after an earlier one succeeded, and the
\* link and the time of the earlier one are still stored
C29_Witness ==
    /\ last.act = "refresh" /\ ~last.ok /\ last.msg = "export_timeout"
    /\ flow_state.viewer_url # 0
    /\ flow_state.last_refresh_ts = flow_state.viewer_url
    /\ flow_state.last_refresh_ts < now

(***************************************************************************)
(* Properties of the browser drivers                                       *)
(***************************************************************************)
\* the drivers whose browser is still running: launched and not quit
Running == {d \in 1..MaxDrivers : browsers[d] \in {"live", "away", "stray"}}

\* C30: at the end of every action each browser driver that was created is
\* the handle stored in the flow state or has been quit (none is left
\* running unreferenced, also after an open that failed while importing the
\* diagram), and the stored handle never refers to a driver that was quit.
C30_NoOrphanedBrowser ==
    /\ \A d \in Running : flow_state.driver = d
    /\ flow_state.driver # 0 => browsers[flow_state.driver] # "quit"

====
